---- MODULE Spec2Model ----
(***************************************************************************)
(* Model of the modified Greenwald-Khanna quantile summary of              *)
(* fast-quantiles: modified_gk::Summary (insert_one, compress, merge,      *)
(* merge_sorted_samples, query_with_error), SamplesCompressor,             *)
(* SummaryWriter and quantile_to_rank.                                     *)
(*                                                                         *)
(* Values are small integers.  An f64 epsilon or quantile is written as    *)
(* the rational <<num, den>> and stands for the f64 nearest to num / den.  *)
(* For the epsilons and the lengths used here floor(2.*eps*len) and        *)
(* ceil(1./eps) equal the exact rational results; quantile_to_rank         *)
(* computes ceil(q*num) with the rounding of the f64 quotient and product. *)
(***************************************************************************)
EXTENDS Integers, Sequences, FiniteSets, TLC

\* ------------------------------------------------------------------ bounds
\* inserted values are 1..MaxValue
MaxValue == 3
\* the values inserted when every operation is used are 1..MaxSpecValue
MaxSpecValue == 2
\* at most MaxLen values are inserted in all (Summary objects and writer buffer)
MaxLen == 6
\* at most MaxInsertLen values are inserted when insert_one is the only operation
MaxInsertLen == 7
\* at most MaxMergeLen values are inserted into two Summary objects that are then merged
MaxMergeLen == 7
\* buffer_capacity given to SummaryWriter::with_summary_and_capacity
BufferCapacity == 2

Max(a, b) == IF a >= b THEN a ELSE b

Values == 1..MaxValue
SpecValues == 1..MaxSpecValue
\* the max_expected_error values given to Summary::new, as <<num, den>>
Epsilons == {<<1, 10>>, <<1, 5>>, <<1, 2>>}
\* the pairs of epsilons the two Summary objects are constructed with: equal
\* ones, and one pair of different ones (merged in both directions)
\* max_expected_error values outside the open interval (0, 1): negative, 1
\* and greater than 1 (0. is left out: 1. / 0. is inf, and 5 * (inf as u64)
\* overflows u64, which panics or wraps depending on the build)
OutOfRangeEpsilons == {<<-1, 2>>, <<1, 1>>, <<3, 2>>}
EpsilonPairs == {<<e, e>> : e \in Epsilons} \cup {<<<<1, 5>>, <<1, 2>>>>}
\* the two Summary objects of the model
Slots == {"a", "b"}
\* the Summary wrapped by the SummaryWriter
WriterSlot == "a"

None == <<>>
Some(x) == <<x>>

VARIABLES
    summary,   \* summary[s]: the Summary object s
    buffer,    \* SummaryWriter.buffer of the writer wrapping summary[WriterSlot]
    failure,   \* "none", or the panic that ended the program
    moved,     \* the Summary objects consumed by a merge and not constructed again
    stream,    \* ghost: stream[s][v] = how often v was given to summary s
    last       \* ghost: the operation that produced this state, the Summary it
               \* acted on and its argument (a value, or the length merged in)

vars == <<summary, buffer, failure, moved, stream, last>>

\* ------------------------------------------------------------- arithmetic
\* floor(num/den) and ceil(num/den) for num >= 0, den > 0
Floor(num, den) == num \div den
Ceil(num, den) == (num + den - 1) \div den

\* e1 <= e2 for rationals with positive denominators
RatLeq(e1, e2) == e1[1] * e2[2] <= e2[1] * e1[2]

\* ---------------------------------------------------------------- Sample
Sample(value, g, delta) == [value |-> value, g |-> g, delta |-> delta]
exact(value) == Sample(value, 1, 0)

\* ------------------------------------------------------- quantile_to_rank
\* the assert! of quantile_to_rank without its upper bound
quantile_in_range_no_upper_bound(quantile) == quantile[1] >= 0

\* the assert! of quantile_to_rank: 0 <= quantile <= 1
quantile_in_range(quantile) == quantile[1] >= 0 /\ quantile[1] <= quantile[2]

\* f64 arithmetic on small integers.  An f64 quantile is <<n, d>>: the f64
\* nearest to n/d (the result of the f64 division n / d, round to nearest even).
\* 2^k mod m, by squaring
RECURSIVE pow2mod(_, _)
pow2mod(k, m) ==
    IF k = 0 THEN 1 % m
    ELSE IF k % 2 = 1 THEN (2 * pow2mod(k - 1, m)) % m
    ELSE (pow2mod(k \div 2, m) ^ 2) % m

\* floor(log2(n/d)) for n > 0, d > 0: the binary exponent of the f64 n/d
RECURSIVE floor_log2(_, _)
floor_log2(n, d) ==
    IF n >= 2 * d THEN floor_log2(n, 2 * d) + 1
    ELSE IF n < d THEN floor_log2(2 * n, d) - 1
    ELSE 0

\* the f64 product (n / d) * num is greater than the integer n*num/d, for
\* n, d, num > 0 and d dividing n*num.  The quotient n / d has the 53-bit
\* significand M = round(n * 2^k / d) with k = 52 - floor(log2(n/d)), so
\* M * d = n * 2^k + E with E = d - R when the division rounded up
\* (R = n * 2^k mod d, 2R > d) and E = -R otherwise.  The exact product is
\* n*num/d + E * num / (d * 2^k); it rounds to a greater f64 exactly when it
\* exceeds half an ulp of n*num/d, which is 2^(floor(log2(n*num/d)) - 53).
f64_product_exceeds(n, d, num) ==
    LET k == 52 - floor_log2(n, d)
        R == (n * pow2mod(k, d)) % d
        e == floor_log2(n * num, d) - floor_log2(n, d) - 1
    IN
    /\ 2 * R > d
    /\ (d - R) * num * (IF e < 0 THEN 2 ^ (0 - e) ELSE 1) > d * (IF e >= 0 THEN 2 ^ e ELSE 1)

\* ((quantile * num as f64).ceil() as usize).max(1); the cast of a negative
\* f64 saturates at 0.  When n*num/d is not an integer the rounding errors of
\* the division and of the product are too small to change the ceiling.
quantile_to_rank(quantile, num) ==
    LET n == quantile[1]
        d == quantile[2]
    IN
    IF n <= 0 \/ num = 0 THEN 1
    ELSE IF (n * num) % d # 0 THEN Max(Ceil(n * num, d), 1)
    ELSE (n * num) \div d + (IF f64_product_exceeds(n, d, num) THEN 1 ELSE 0)

\* rank as f64 / num as f64
rank_to_quantile(rank, num) == <<rank, num>>

\* ----------------------------------------------------- SamplesCompressor
SamplesCompressor_new(max_g_delta) ==
    [max_g_delta |-> max_g_delta, compressed_samples |-> <<>>, block_tail |-> None]

\* push that keeps the g of the new sample when it joins the current block
push_drops_g(c, sample) ==
    IF c.block_tail # None
    THEN LET tail_sample == c.block_tail[1] IN
         IF tail_sample.g + sample.g + sample.delta <= c.max_g_delta
         THEN [c EXCEPT !.block_tail = Some(sample)]
         ELSE [c EXCEPT !.compressed_samples = Append(@, tail_sample),
                        !.block_tail = Some(sample)]
    ELSE IF Len(c.compressed_samples) = 0
         THEN [c EXCEPT !.compressed_samples = Append(@, sample)]
         ELSE [c EXCEPT !.block_tail = Some(sample)]

\* push that also adds the delta of the absorbed tail to the new sample
push_adds_tail_delta(c, sample) ==
    IF c.block_tail # None
    THEN LET tail_sample == c.block_tail[1] IN
         IF tail_sample.g + sample.g + sample.delta <= c.max_g_delta
         THEN [c EXCEPT !.block_tail = Some([sample EXCEPT !.g = @ + tail_sample.g,
                                                           !.delta = @ + tail_sample.delta])]
         ELSE [c EXCEPT !.compressed_samples = Append(@, tail_sample),
                        !.block_tail = Some(sample)]
    ELSE IF Len(c.compressed_samples) = 0
         THEN [c EXCEPT !.compressed_samples = Append(@, sample)]
         ELSE [c EXCEPT !.block_tail = Some(sample)]

\* push that does not commit the minimum: the first sample starts a block
push_minimum_in_block(c, sample) ==
    IF c.block_tail # None
    THEN LET tail_sample == c.block_tail[1] IN
         IF tail_sample.g + sample.g + sample.delta <= c.max_g_delta
         THEN [c EXCEPT !.block_tail = Some([sample EXCEPT !.g = @ + tail_sample.g])]
         ELSE [c EXCEPT !.compressed_samples = Append(@, tail_sample),
                        !.block_tail = Some(sample)]
    ELSE [c EXCEPT !.block_tail = Some(sample)]

\* push that leaves the delta of the new sample out of the comparison
push_ignores_delta(c, sample) ==
    IF c.block_tail # None
    THEN LET tail_sample == c.block_tail[1] IN
         IF tail_sample.g + sample.g <= c.max_g_delta
         THEN [c EXCEPT !.block_tail = Some([sample EXCEPT !.g = @ + tail_sample.g])]
         ELSE [c EXCEPT !.compressed_samples = Append(@, tail_sample),
                        !.block_tail = Some(sample)]
    ELSE IF Len(c.compressed_samples) = 0
         THEN [c EXCEPT !.compressed_samples = Append(@, sample)]
         ELSE [c EXCEPT !.block_tail = Some(sample)]

push(c, sample) ==
    IF c.block_tail # None
    THEN LET tail_sample == c.block_tail[1] IN
         IF tail_sample.g + sample.g + sample.delta <= c.max_g_delta
         THEN \* add the new sample to the current compression block
              [c EXCEPT !.block_tail = Some([sample EXCEPT !.g = @ + tail_sample.g])]
         ELSE \* commit the previous block and start a new one
              [c EXCEPT !.compressed_samples = Append(@, tail_sample),
                        !.block_tail = Some(sample)]
    ELSE IF Len(c.compressed_samples) = 0
         THEN \* commit the minimum
              [c EXCEPT !.compressed_samples = Append(@, sample)]
         ELSE \* start the first block
              [c EXCEPT !.block_tail = Some(sample)]

\* into_samples that does not commit the last block
into_samples_without_tail(c) == c.compressed_samples

into_samples(c) ==
    IF c.block_tail # None
    THEN Append(c.compressed_samples, c.block_tail[1])
    ELSE c.compressed_samples

\* for sample in samples { compressor.push(sample) }
RECURSIVE push_all(_, _)
push_all(c, samples) ==
    IF samples = <<>> THEN c
    ELSE IF Len(samples) = 1 THEN push(c, samples[1])
    ELSE \* the first half in order, then the second half in order; push never
         \* changes max_g_delta, and the test has the first half pushed
         \* before the second half is looked at
         LET half == Len(samples) \div 2
             pushed == push_all(c, SubSeq(samples, 1, half))
         IN
         IF pushed.max_g_delta = c.max_g_delta
         THEN push_all(pushed, SubSeq(samples, half + 1, Len(samples)))
         ELSE pushed

\* ---------------------------------------------------- IncomingMergeState
IncomingMergeState_new(samples) == [samples |-> samples, residual_delta |-> 0]

peek(input) == IF input.samples = <<>> THEN None ELSE Some(Head(input.samples))

\* pop_front that keeps delta + g - 1 of the last popped sample only
pop_front_forgets_maximum(input) ==
    LET popped == Head(input.samples) IN
    [samples |-> Tail(input.samples),
     residual_delta |-> popped.delta + popped.g - 1]

\* the state of the cursor after pop_front; the popped sample is peek(input)[1]
pop_front(input) ==
    LET popped == Head(input.samples) IN
    [samples |-> Tail(input.samples),
     residual_delta |-> Max(input.residual_delta, popped.delta + popped.g - 1)]

aditional_delta(input) == input.residual_delta

push_remaining_to(input, compressor) == push_all(compressor, input.samples)

\* ---------------------------------------------------------------- Summary
\* (1. / max_expected_error).ceil() as u64, for max_expected_error # 0: the
\* cast of a negative f64 saturates at 0
expected_least_compressed_samples(max_expected_error) ==
    IF max_expected_error[1] > 0
    THEN Ceil(max_expected_error[2], max_expected_error[1])
    ELSE 0

Summary_new(max_expected_error) ==
    [samples |-> <<>>,
     max_samples |-> 5 * expected_least_compressed_samples(max_expected_error),
     max_expected_error |-> max_expected_error,
     len |-> 0]

\* (2. * self.max_expected_error * self.len as f64).floor() as u64: the cast
\* of a negative f64 saturates at 0
max_g_delta(self) ==
    Max(Floor(2 * self.max_expected_error[1] * self.len, self.max_expected_error[2]), 0)

compress(self) ==
    [self EXCEPT !.samples =
        into_samples(push_all(SamplesCompressor_new(max_g_delta(self)), self.samples))]

\* --------------------------------------------------------- BTree::try_insert
\* first index such that element > search_value (Len + 1 when there is none)
first_greater(samples, value) ==
    LET greater == {i \in 1..Len(samples) : samples[i].value > value} IN
    IF greater = {} THEN Len(samples) + 1
    ELSE CHOOSE i \in greater : \A j \in greater : i <= j

\* the InsertionPoint handed to the closure of try_insert
insertion_point(samples, value) ==
    LET index == first_greater(samples, value) IN
    IF Len(samples) = 0 THEN "Empty"
    ELSE IF index = 1 THEN "Minimum"
    ELSE IF index = Len(samples) + 1 THEN "Maximum"
    ELSE "Intermediate"

\* Node::insert: the element goes to position index, the rest shifts right
insert_at(samples, index, sample) ==
    SubSeq(samples, 1, index - 1) \o <<sample>> \o SubSeq(samples, index, Len(samples))

\* try_insert whose Minimum case gives the new value to after_min
try_insert_value_to_after_min(samples, value, cap) ==
    LET index == first_greater(samples, value)
        n == Len(samples)
        point == insertion_point(samples, value)
    IN
    IF point = "Empty" THEN <<exact(value)>>
    ELSE IF point = "Minimum" THEN
        IF n >= 2 /\ samples[2].delta + samples[2].g + 1 <= cap
        THEN [samples EXCEPT ![2].g = @ + 1, ![2].value = value]
        ELSE insert_at(samples, 1, exact(value))
    ELSE IF point = "Maximum" THEN
        IF samples[n].g + 1 <= cap
        THEN [samples EXCEPT ![n].g = @ + 1, ![n].value = value]
        ELSE insert_at(samples, n + 1, exact(value))
    ELSE
        LET right == samples[index] IN
        IF right.delta + right.g + 1 <= cap
        THEN [samples EXCEPT ![index].g = @ + 1]
        ELSE insert_at(samples, index, Sample(value, 1, right.g + right.delta - 1))

\* try_insert whose Intermediate case inserts delta = right.g + right.delta
try_insert_delta_not_decremented(samples, value, cap) ==
    LET index == first_greater(samples, value)
        n == Len(samples)
        point == insertion_point(samples, value)
    IN
    IF point = "Empty" THEN <<exact(value)>>
    ELSE IF point = "Minimum" THEN
        IF n >= 2 /\ samples[2].delta + samples[2].g + 1 <= cap
        THEN [samples EXCEPT ![2].g = @ + 1, ![1].value = value]
        ELSE insert_at(samples, 1, exact(value))
    ELSE IF point = "Maximum" THEN
        IF samples[n].g + 1 <= cap
        THEN [samples EXCEPT ![n].g = @ + 1, ![n].value = value]
        ELSE insert_at(samples, n + 1, exact(value))
    ELSE
        LET right == samples[index] IN
        IF right.delta + right.g + 1 <= cap
        THEN [samples EXCEPT ![index].g = @ + 1]
        ELSE insert_at(samples, index, Sample(value, 1, right.g + right.delta))

\* try_insert whose Maximum case inserts like the Intermediate case does
try_insert_maximum_with_delta(samples, value, cap) ==
    LET index == first_greater(samples, value)
        n == Len(samples)
        point == insertion_point(samples, value)
    IN
    IF point = "Empty" THEN <<exact(value)>>
    ELSE IF point = "Minimum" THEN
        IF n >= 2 /\ samples[2].delta + samples[2].g + 1 <= cap
        THEN [samples EXCEPT ![2].g = @ + 1, ![1].value = value]
        ELSE insert_at(samples, 1, exact(value))
    ELSE IF point = "Maximum" THEN
        IF samples[n].g + 1 <= cap
        THEN [samples EXCEPT ![n].g = @ + 1, ![n].value = value]
        ELSE insert_at(samples, n + 1,
                       Sample(value, 1, samples[n].g + samples[n].delta - 1))
    ELSE
        LET right == samples[index] IN
        IF right.delta + right.g + 1 <= cap
        THEN [samples EXCEPT ![index].g = @ + 1]
        ELSE insert_at(samples, index, Sample(value, 1, right.g + right.delta - 1))

\* the samples after the closure of insert_one ran at the insertion point
\* (cap is max_g_delta computed after len was incremented)
try_insert(samples, value, cap) ==
    LET index == first_greater(samples, value)
        n == Len(samples)
        point == insertion_point(samples, value)
    IN
    IF point = "Empty" THEN <<exact(value)>>
    ELSE IF point = "Minimum" THEN
        IF n >= 2 /\ samples[2].delta + samples[2].g + 1 <= cap
        THEN \* merge the previous min into after_min and replace it
             [samples EXCEPT ![2].g = @ + 1, ![1].value = value]
        ELSE insert_at(samples, 1, exact(value))
    ELSE IF point = "Maximum" THEN
        IF samples[n].g + 1 <= cap
        THEN \* merge the previous max into the new one
             [samples EXCEPT ![n].g = @ + 1, ![n].value = value]
        ELSE insert_at(samples, n + 1, exact(value))
    ELSE
        LET right == samples[index] IN
        IF right.delta + right.g + 1 <= cap
        THEN \* drop
             [samples EXCEPT ![index].g = @ + 1]
        ELSE insert_at(samples, index, Sample(value, 1, right.g + right.delta - 1))

\* the debug_assert_eq!s of the closure of insert_one hold at the insertion point
debug_asserts_hold(samples, value) ==
    LET point == insertion_point(samples, value) IN
    /\ point = "Minimum" => samples[1].g = 1 /\ samples[1].delta = 0
    /\ point = "Maximum" => samples[Len(samples)].delta = 0

insert_one(self, value) ==
    LET counted == [self EXCEPT !.len = @ + 1]
        cap == max_g_delta(counted)
        inserted == [counted EXCEPT !.samples = try_insert(self.samples, value, cap)]
    IN
    \* keep the number of saved samples bounded
    IF Len(inserted.samples) > inserted.max_samples
    THEN compress(inserted)
    ELSE inserted

\* the loop of merge_sorted_samples without push_remaining_to for other
RECURSIVE merge_loop_other_not_drained(_, _, _)
merge_loop_other_not_drained(self_input, other_input, compressor) ==
    IF peek(self_input) = None
    THEN into_samples(compressor)
    ELSE IF peek(other_input) = None
    THEN into_samples(push_remaining_to(self_input, compressor))
    ELSE LET self_peeked == peek(self_input)[1]
             other_peeked == peek(other_input)[1]
         IN
         IF self_peeked.value < other_peeked.value
         THEN merge_loop_other_not_drained(pop_front(self_input), other_input,
                  push(compressor,
                       [self_peeked EXCEPT !.delta = @ + aditional_delta(other_input)]))
         ELSE merge_loop_other_not_drained(self_input, pop_front(other_input),
                  push(compressor,
                       [other_peeked EXCEPT !.delta = @ + aditional_delta(self_input)]))

\* the loop of merge_sorted_samples taking the larger head first
RECURSIVE merge_loop_larger_first(_, _, _)
merge_loop_larger_first(self_input, other_input, compressor) ==
    IF peek(self_input) = None
    THEN into_samples(push_remaining_to(other_input, compressor))
    ELSE IF peek(other_input) = None
    THEN into_samples(push_remaining_to(self_input, compressor))
    ELSE LET self_peeked == peek(self_input)[1]
             other_peeked == peek(other_input)[1]
         IN
         IF self_peeked.value > other_peeked.value
         THEN merge_loop_larger_first(pop_front(self_input), other_input,
                  push(compressor,
                       [self_peeked EXCEPT !.delta = @ + aditional_delta(other_input)]))
         ELSE merge_loop_larger_first(self_input, pop_front(other_input),
                  push(compressor,
                       [other_peeked EXCEPT !.delta = @ + aditional_delta(self_input)]))

\* the loop of merge_sorted_samples: the samples the compressor returns
RECURSIVE merge_loop(_, _, _)
merge_loop(self_input, other_input, compressor) ==
    IF peek(self_input) = None
    THEN into_samples(push_remaining_to(other_input, compressor))
    ELSE IF peek(other_input) = None
    THEN into_samples(push_remaining_to(self_input, compressor))
    ELSE LET self_peeked == peek(self_input)[1]
             other_peeked == peek(other_input)[1]
         IN
         IF self_peeked.value < other_peeked.value
         THEN merge_loop(pop_front(self_input), other_input,
                  push(compressor,
                       [self_peeked EXCEPT !.delta = @ + aditional_delta(other_input)]))
         ELSE merge_loop(self_input, pop_front(other_input),
                  push(compressor,
                       [other_peeked EXCEPT !.delta = @ + aditional_delta(self_input)]))

\* merge_sorted_samples that counts the samples of other instead of other_len
merge_sorted_samples_counts_samples(self, other_samples, other_len) ==
    LET counted == [self EXCEPT !.len = @ + Len(other_samples)] IN
    [counted EXCEPT !.samples =
        merge_loop(IncomingMergeState_new(self.samples),
                   IncomingMergeState_new(other_samples),
                   SamplesCompressor_new(max_g_delta(counted)))]

\* merge_sorted_samples that takes the cap before other_len is added to len
merge_sorted_samples_cap_before_len(self, other_samples, other_len) ==
    LET counted == [self EXCEPT !.len = @ + other_len] IN
    [counted EXCEPT !.samples =
        merge_loop(IncomingMergeState_new(self.samples),
                   IncomingMergeState_new(other_samples),
                   SamplesCompressor_new(max_g_delta(self)))]

merge_sorted_samples(self, other_samples, other_len) ==
    LET counted == [self EXCEPT !.len = @ + other_len] IN
    [counted EXCEPT !.samples =
        merge_loop(IncomingMergeState_new(self.samples),
                   IncomingMergeState_new(other_samples),
                   SamplesCompressor_new(max_g_delta(counted)))]

\* the assert! of merge with the comparison reversed
merge_accepts_reversed(self, other) ==
    RatLeq(self.max_expected_error, other.max_expected_error)

\* the assert! of merge
merge_accepts(self, other) == RatLeq(other.max_expected_error, self.max_expected_error)

merge(self, other) == merge_sorted_samples(self, other.samples, other.len)

\* the fold of query_with_error keeping the last minimum
RECURSIVE query_scan_last_on_ties(_, _, _, _, _)
query_scan_last_on_ties(samples, target_rank, i, min_rank_before, best) ==
    IF i > Len(samples) THEN best
    ELSE LET sample == samples[i]
             min_rank == min_rank_before + sample.g
             max_rank == min_rank + sample.delta
             mid_rank == (min_rank + max_rank) \div 2
             max_rank_error == IF target_rank > mid_rank
                               THEN target_rank - min_rank
                               ELSE max_rank - target_rank
             better == IF best = None THEN TRUE
                       ELSE max_rank_error <= best[1].rank_error
         IN query_scan_last_on_ties(samples, target_rank, i + 1, min_rank,
                       IF better
                       THEN Some([value |-> sample.value, rank_error |-> max_rank_error])
                       ELSE best)

\* the fold of query_with_error: min_by_key keeps the first minimum
RECURSIVE query_scan(_, _, _, _, _)
query_scan(samples, target_rank, i, min_rank_before, best) ==
    IF i > Len(samples) THEN best
    ELSE LET sample == samples[i]
             min_rank == min_rank_before + sample.g
             max_rank == min_rank + sample.delta
             mid_rank == (min_rank + max_rank) \div 2
             max_rank_error == IF target_rank > mid_rank
                               THEN target_rank - min_rank
                               ELSE max_rank - target_rank
             better == IF best = None THEN TRUE
                       ELSE max_rank_error < best[1].rank_error
         IN query_scan(samples, target_rank, i + 1, min_rank,
                       IF better
                       THEN Some([value |-> sample.value, rank_error |-> max_rank_error])
                       ELSE best)

\* None, or Some of the value and the rank error (the reported error is
\* rank_error / len)
query_with_error(self, quantile) ==
    query_scan(self.samples, quantile_to_rank(quantile, self.len), 1, 0, None)

query(self, quantile) ==
    LET answer == query_with_error(self, quantile) IN
    IF answer = None THEN None ELSE Some(answer[1].value)

\* ---------------------------------------------------------- SummaryWriter
\* self.buffer.sort(), each value turned into Sample { value, g: 1, delta: 0 }
sorted_exact_samples(values) ==
    LET sorted == SortSeq(values, LAMBDA x, y : x < y) IN
    [i \in 1..Len(sorted) |-> exact(sorted[i])]

flush_skips_single_value(wrapped, values) ==
    IF Len(values) <= 1 THEN wrapped
    ELSE merge_sorted_samples(wrapped, sorted_exact_samples(values), Len(values))

\* SummaryWriter::flush: the wrapped Summary after the flush of the buffer
flush(wrapped, values) ==
    IF Len(values) = 0 THEN wrapped
    ELSE merge_sorted_samples(wrapped, sorted_exact_samples(values), Len(values))

\* ------------------------------------------------------ baseline gk::Summary
\* the result of band when a u64 subtraction overflows (a panic in a debug
\* build, a wrapped value in a release build)
Underflow == -1

\* the loop of band with lower_bound = p - (1 << a)
RECURSIVE gk_band_search_without_mod(_, _, _)
gk_band_search_without_mod(delta, p, a) ==
    IF p < 2 ^ a THEN Underflow
    ELSE IF delta > p - 2 ^ a THEN a
    ELSE gk_band_search_without_mod(delta, p, a + 1)

\* the loop of band: lower_bound = p - (1 << a) - (p % (1 << a)) in u64
RECURSIVE gk_band_search(_, _, _)
gk_band_search(delta, p, a) ==
    IF p < 2 ^ a + (p % (2 ^ a)) THEN Underflow
    ELSE IF delta > p - 2 ^ a - (p % (2 ^ a)) THEN a
    ELSE gk_band_search(delta, p, a + 1)

\* Summary::band(delta, p), for delta <= p (the assert! is in the action)
gk_band(delta, p) ==
    IF delta = 0
    THEN IF p = 0 THEN 0 ELSE floor_log2(p, 1) + 1
    ELSE gk_band_search(delta, p, 0)

\* Summary::new(epsilon) of the baseline
gk_new(epsilon) == [samples |-> <<>>, epsilon |-> epsilon, len |-> 0]

\* Sample::new(value, delta)
gk_Sample(value, delta) == [value |-> value, g |-> 1, delta |-> delta, band |-> 0]

\* (2. * self.epsilon * self.len as f64).floor() as u64
gk_threshold(epsilon, len) == Floor(2 * epsilon[1] * len, epsilon[2])

\* Summary::insert_without_compression
gk_insert_without_compression(self, value) ==
    LET len == self.len + 1
        samples == self.samples
    IN
    IF samples = <<>> \/ value < samples[1].value
    THEN [self EXCEPT !.len = len, !.samples = <<gk_Sample(value, 0)>> \o samples]
    ELSE IF value >= samples[Len(samples)].value
    THEN [self EXCEPT !.len = len, !.samples = Append(samples, gk_Sample(value, 0))]
    ELSE LET i == CHOOSE i \in 2..Len(samples) :
                      /\ value < samples[i].value
                      /\ \A k \in 2..(i - 1) : ~(value < samples[k].value)
         IN [self EXCEPT !.len = len,
                         !.samples = insert_at(samples, i,
                                         gk_Sample(value, gk_threshold(self.epsilon, len)))]

\* Summary::update_bands
gk_update_bands(samples, p) ==
    [k \in 1..Len(samples) |-> [samples[k] EXCEPT !.band = gk_band(samples[k].delta, p)]]

\* Summary::scan_all_descendents: <<j, total_g>>, i and j are indices from 0
RECURSIVE gk_scan(_, _, _, _)
gk_scan(samples, max_band, j, total_g) ==
    IF j > 1 /\ samples[j].band < max_band
    THEN gk_scan(samples, max_band, j - 1, total_g + samples[j].g)
    ELSE <<j, total_g>>

gk_scan_all_descendents(samples, i) ==
    gk_scan(samples, samples[i + 1].band, i, samples[i + 1].g)

\* the loop of compress over the pairs (i, i + 1) in reverse order; i is an
\* index from 0, decremented at the start of each round
RECURSIVE gk_compress_loop(_, _, _)
gk_compress_loop(samples, i, compression_threshold) ==
    IF ~(i > 1) THEN samples
    ELSE LET at == i - 1
             sample == samples[at + 1]
             next_sample == samples[at + 2]
             scanned == gk_scan_all_descendents(samples, at)
             first_descendent == scanned[1]
             new_g == scanned[2] + next_sample.g
             removed == at - first_descendent + 1
         IN
         IF sample.band > next_sample.band
         THEN gk_compress_loop(samples, at, compression_threshold)
         ELSE IF new_g + next_sample.delta >= compression_threshold
         THEN gk_compress_loop(samples, at, compression_threshold)
         ELSE gk_compress_loop(
                  [k \in 1..(Len(samples) - removed) |->
                      IF k <= first_descendent THEN samples[k]
                      ELSE IF k = first_descendent + 1 THEN [next_sample EXCEPT !.g = new_g]
                      ELSE samples[k + removed]],
                  first_descendent, compression_threshold)

\* Summary::compress of the baseline, for a Summary with samples and with
\* every delta <= the threshold (band asserts it)
gk_compress(self) ==
    LET compression_threshold == gk_threshold(self.epsilon, self.len) IN
    [self EXCEPT !.samples =
        gk_compress_loop(gk_update_bands(self.samples, compression_threshold),
                         Len(self.samples) - 1, compression_threshold)]

\* (1. / (2. * self.epsilon)).ceil() as u64
gk_compress_frequency(epsilon) == Ceil(epsilon[2], 2 * epsilon[1])

\* Summary::insert_one of the baseline
gk_insert_one(self, value) ==
    IF self.len > 0 /\ self.len % gk_compress_frequency(self.epsilon) = 0
    THEN gk_insert_without_compression(gk_compress(self), value)
    ELSE gk_insert_without_compression(self, value)

\* the loop of query: best is <<sample, |error|>>, |error| = -1 for INFINITY
RECURSIVE gk_query_scan(_, _, _, _, _, _)
gk_query_scan(samples, rank, max_err, k, min_rank_before, best) ==
    IF k > Len(samples) THEN best
    ELSE LET sample == samples[k]
             min_rank == min_rank_before + sample.g
             max_rank == min_rank + sample.delta
             mid == min_rank + Ceil(sample.delta, 2)
             error == IF rank >= mid THEN rank - mid ELSE mid - rank
         IN gk_query_scan(samples, rank, max_err, k + 1, min_rank,
                IF /\ rank <= max_err + min_rank
                   /\ max_rank <= max_err + rank
                   /\ (best[2] = -1 \/ error < best[2])
                THEN <<sample, error>>
                ELSE best)

\* Summary::query of the baseline
gk_query(self, quantile) ==
    IF self.len = 0 THEN None
    ELSE LET rank == quantile_to_rank(quantile, self.len)
             max_err == Floor(self.epsilon[1] * self.len, self.epsilon[2])
         IN Some(gk_query_scan(self.samples, rank, max_err, 1, 0,
                               <<self.samples[1], -1>>)[1].value)

\* --------------------------------------------------------------- BTree
\* const CAPACITY: usize = 11 (the implementation assumes it is odd)
CAPACITY == 11

\* a Node is its initialized elements and, unless it is a leaf (children:
\* None, written <<>>), its len + 1 children
Node_with_elements_and_children(elements, children) ==
    [elements |-> elements, children |-> children]

is_leaf(node) == node.children = <<>>

\* Node::insert into a non-full node; index counts from 0; right_child is
\* None or Some(node)
Node_insert(node, value, right_child, index) ==
    [elements |-> insert_at(node.elements, index + 1, value),
     children |-> IF right_child = None THEN node.children
                  ELSE insert_at(node.children, index + 2, right_child[1])]

\* Node::insert_and_split taking the element before the middle as median
insert_and_split_median_off_by_one(node, value, right_child, index) ==
    IF Len(node.elements) < CAPACITY
    THEN [node |-> Node_insert(node, value, right_child, index), split |-> None]
    ELSE LET len == Len(node.elements)
             med == len \div 2
             median == node.elements[med]
             left == Node_with_elements_and_children(
                         SubSeq(node.elements, 1, med),
                         IF is_leaf(node) THEN <<>> ELSE SubSeq(node.children, 1, med + 1))
             right == Node_with_elements_and_children(
                          SubSeq(node.elements, med + 2, len),
                          IF is_leaf(node) THEN <<>> ELSE SubSeq(node.children, med + 2, len + 1))
         IN
         IF index <= med
         THEN [node |-> Node_insert(left, value, right_child, index),
               split |-> Some(<<median, right>>)]
         ELSE [node |-> left,
               split |-> Some(<<median, Node_insert(right, value, right_child, index - med - 1)>>)]

\* Node::insert_and_split: the node after the call (self, the left node of a
\* split) and None (Inserted) or Some(<<median, right>>) (PendingSplit)
insert_and_split(node, value, right_child, index) ==
    IF Len(node.elements) < CAPACITY
    THEN [node |-> Node_insert(node, value, right_child, index), split |-> None]
    ELSE LET len == Len(node.elements)
             med == len \div 2
             median == node.elements[med + 1]
             left == Node_with_elements_and_children(
                         SubSeq(node.elements, 1, med),
                         IF is_leaf(node) THEN <<>> ELSE SubSeq(node.children, 1, med + 1))
             right == Node_with_elements_and_children(
                          SubSeq(node.elements, med + 2, len),
                          IF is_leaf(node) THEN <<>> ELSE SubSeq(node.children, med + 2, len + 1))
         IN
         IF index <= med
         THEN [node |-> Node_insert(left, value, right_child, index),
               split |-> Some(<<median, right>>)]
         ELSE [node |-> left,
               split |-> Some(<<median, Node_insert(right, value, right_child, index - med - 1)>>)]

\* the first index (from 0) whose element is > search_value, or len
search_index(node, search_value) ==
    LET greater == {i \in 1..Len(node.elements) : node.elements[i] > search_value} IN
    IF greater = {} THEN Len(node.elements)
    ELSE (CHOOSE i \in greater : \A k \in greater : i <= k) - 1

\* Node::try_insert with a closure that returns Some(value)
RECURSIVE Node_try_insert(_, _, _)
Node_try_insert(node, search_value, value) ==
    LET index == search_index(node, search_value) IN
    IF is_leaf(node)
    THEN insert_and_split(node, value, None, index)
    ELSE LET below == Node_try_insert(node.children[index + 1], search_value, value)
             self == [node EXCEPT !.children[index + 1] = below.node]
         IN
         IF below.split # None
         THEN insert_and_split(self, below.split[1][1], Some(below.split[1][2]), index)
         ELSE [node |-> self, split |-> None]

\* Option::or
or(option, optb) == IF option # None THEN option ELSE optb

\* the InsertionPoint a leaf builds, classifying a leaf that starts at its
\* index 0 as the minimum whatever is to its left
leaf_insertion_point_ignores_left(node, index, new_left, new_right, left, right) ==
    LET len == Len(node.elements) IN
    IF index = 0 /\ len = 0
    THEN [kind |-> "Empty", first |-> None, second |-> None]
    ELSE IF index = 0
    THEN IF new_right = None
         THEN [kind |-> "Panic", first |-> None, second |-> None]
         ELSE [kind |-> "Minimum", first |-> new_right,
               second |-> IF len > 1 THEN Some(node.elements[2]) ELSE right]
    ELSE IF index = len /\ right = None
    THEN IF new_left = None
         THEN [kind |-> "Panic", first |-> None, second |-> None]
         ELSE [kind |-> "Maximum", first |-> new_left, second |-> None]
    ELSE IF or(new_right, right) = None
    THEN [kind |-> "Panic", first |-> None, second |-> None]
    ELSE [kind |-> "Intermediate", first |-> or(new_right, right), second |-> None]

\* the InsertionPoint a leaf of Node::try_insert builds: its kind and the
\* elements it refers to; unwrap() of None panics
leaf_insertion_point(node, index, new_left, new_right, left, right) ==
    LET len == Len(node.elements) IN
    IF index = 0 /\ len = 0
    THEN [kind |-> "Empty", first |-> None, second |-> None]
    ELSE IF index = 0 /\ left = None
    THEN IF new_right = None
         THEN [kind |-> "Panic", first |-> None, second |-> None]
         ELSE [kind |-> "Minimum", first |-> new_right,
               second |-> IF len > 1 THEN Some(node.elements[2]) ELSE right]
    ELSE IF index = len /\ right = None
    THEN IF new_left = None
         THEN [kind |-> "Panic", first |-> None, second |-> None]
         ELSE [kind |-> "Maximum", first |-> new_left, second |-> None]
    ELSE IF or(new_right, right) = None
    THEN [kind |-> "Panic", first |-> None, second |-> None]
    ELSE [kind |-> "Intermediate", first |-> or(new_right, right), second |-> None]

\* Node::try_insert down to the leaf: the InsertionPoint handed to the
\* closure; left and right are the nearest elements of the ancestors
RECURSIVE Node_insertion_point(_, _, _, _)
Node_insertion_point(node, search_value, left, right) ==
    LET index == search_index(node, search_value)
        new_right == IF index < Len(node.elements)
                     THEN Some(node.elements[index + 1]) ELSE None
        new_left == IF index > 0 THEN Some(node.elements[index]) ELSE None
    IN
    IF is_leaf(node)
    THEN leaf_insertion_point(node, index, new_left, new_right, left, right)
    ELSE Node_insertion_point(node.children[index + 1], search_value,
                              or(new_left, left), or(new_right, right))

\* Node::insert_max
RECURSIVE Node_insert_max(_, _)
Node_insert_max(node, value) ==
    LET len == Len(node.elements) IN
    IF is_leaf(node)
    THEN insert_and_split(node, value, None, len)
    ELSE LET below == Node_insert_max(node.children[len + 1], value)
             self == [node EXCEPT !.children[len + 1] = below.node]
         IN
         IF below.split # None
         THEN insert_and_split(self, below.split[1][1], Some(below.split[1][2]), len)
         ELSE [node |-> self, split |-> None]

\* BTree::new
BTree_new == [root |-> Node_with_elements_and_children(<<>>, <<>>), len |-> 0]

\* BTree::handle_insert_result
handle_insert_result(tree, insert_result) ==
    [root |-> IF insert_result.split = None THEN insert_result.node
              ELSE Node_with_elements_and_children(
                       <<insert_result.split[1][1]>>,
                       <<insert_result.node, insert_result.split[1][2]>>),
     len |-> tree.len + 1]

\* BTree::insert(value): try_insert(&value.clone(), |_| Some(value))
BTree_insert(tree, value) ==
    handle_insert_result(tree, Node_try_insert(tree.root, value, value))

\* BTree::try_insert with a closure that returns get_insert_value (None or
\* Some(value)): the tree after the call and the InsertionPoint the closure
\* was given
BTree_try_insert(tree, search_value, get_insert_value) ==
    LET point == Node_insertion_point(tree.root, search_value, None, None) IN
    IF point.kind = "Panic" THEN [tree |-> tree, point |-> point]
    ELSE IF get_insert_value = None THEN [tree |-> tree, point |-> point]
    ELSE [tree |-> handle_insert_result(
                       tree, Node_try_insert(tree.root, search_value,
                                             get_insert_value[1])),
          point |-> point]

\* BTree::insert_max
BTree_insert_max(tree, value) ==
    handle_insert_result(tree, Node_insert_max(tree.root, value))

\* TreeIter::prepare_state_from: <<tail_states, head_state>>
RECURSIVE prepare_state_from(_, _)
prepare_state_from(tail_states, node) ==
    IF is_leaf(node) THEN <<tail_states, [node |-> node, pos |-> 0]>>
    ELSE prepare_state_from(Append(tail_states, [node |-> node, pos |-> 0]),
                            node.children[1])

\* TreeIter::next until it returns None: the elements returned, in order.
\* The elements of a leaf are returned by consecutive calls that change only
\* pos and are taken together.
RECURSIVE TreeIter_collect(_, _, _)
TreeIter_collect(tail_states, head_state, returned) ==
    LET node == head_state.node
        pos == head_state.pos
    IN
    IF pos < Len(node.elements)
    THEN IF is_leaf(node)
         THEN TreeIter_collect(tail_states,
                               [head_state EXCEPT !.pos = Len(node.elements)],
                               returned \o SubSeq(node.elements, pos + 1, Len(node.elements)))
         ELSE LET prepared == prepare_state_from(
                                  Append(tail_states, [head_state EXCEPT !.pos = pos + 1]),
                                  node.children[pos + 2])
              IN TreeIter_collect(prepared[1], prepared[2],
                                  Append(returned, node.elements[pos + 1]))
    ELSE IF tail_states = <<>> THEN returned
    ELSE TreeIter_collect(SubSeq(tail_states, 1, Len(tail_states) - 1),
                          tail_states[Len(tail_states)], returned)

\* tree.iter().cloned().collect()
BTree_iter(tree) ==
    LET prepared == prepare_state_from(<<>>, tree.root) IN
    TreeIter_collect(prepared[1], prepared[2], <<>>)

\* ------------------------------------------------------------ ghost state
EmptyStream == [v \in Values |-> 0]
AddValue(bag, v) == [bag EXCEPT ![v] = @ + 1]
AddBag(bag1, bag2) == [v \in Values |-> bag1[v] + bag2[v]]
RECURSIVE AddSeq(_, _)
AddSeq(bag, values) ==
    IF values = <<>> THEN bag ELSE AddSeq(AddValue(bag, Head(values)), Tail(values))

Other(x) == CHOOSE y \in Slots : y # x

\* the number of values given to the program so far
Total == summary["a"].len + summary["b"].len + Len(buffer)

\* ------------------------------------------------------------ the machine
Init ==
    /\ \E pair \in EpsilonPairs :
          summary = [s \in Slots |-> Summary_new(IF s = "a" THEN pair[1] ELSE pair[2])]
    /\ buffer = <<>>
    /\ failure = "none"
    /\ moved = {}
    /\ stream = [s \in Slots |-> EmptyStream]
    /\ last = [op |-> "new", slot |-> "a", arg |-> 0]

\* s can be used directly: it was not moved away and no writer holds values for it
Usable(s) ==
    /\ failure = "none"
    /\ s \notin moved
    /\ s = WriterSlot => buffer = <<>>

\* let s = Summary::new(e), after the previous s was consumed by a merge
\* (e is the epsilon the consumed Summary had)
New(s) ==
    LET e == summary[s].max_expected_error IN
    /\ failure = "none"
    /\ s \in moved
    /\ summary' = [summary EXCEPT ![s] = Summary_new(e)]
    /\ moved' = moved \ {s}
    /\ stream' = [stream EXCEPT ![s] = EmptyStream]
    /\ last' = [op |-> "new", slot |-> s, arg |-> 0]
    /\ UNCHANGED <<buffer, failure>>

\* the effect of summary[s].insert_one(v)
InsertOneStep(s, v) ==
    /\ last' = [op |-> "insert_one", slot |-> s, arg |-> v]
    /\ \/ \* release build, or the debug assertions hold
          /\ summary' = [summary EXCEPT ![s] = insert_one(@, v)]
          /\ stream' = [stream EXCEPT ![s] = AddValue(@, v)]
          /\ UNCHANGED <<buffer, failure, moved>>
       \/ \* debug build: a debug_assert_eq! panics after len was incremented
          /\ ~debug_asserts_hold(summary[s].samples, v)
          /\ summary' = [summary EXCEPT ![s].len = @ + 1]
          /\ failure' = "DebugAssertion"
          /\ UNCHANGED <<buffer, moved, stream>>

\* summary[s].insert_one(v)
InsertOne(s, v) ==
    /\ Usable(s)
    /\ Total < MaxLen
    /\ InsertOneStep(s, v)

\* insert_one when it is the only operation used, on one Summary
InsertOnly(v) ==
    /\ failure = "none"
    /\ summary["a"].len < MaxInsertLen
    /\ InsertOneStep("a", v)

\* summary[s].compress()
Compress(s) ==
    /\ Usable(s)
    /\ summary' = [summary EXCEPT ![s] = compress(@)]
    /\ last' = [op |-> "compress", slot |-> s, arg |-> 0]
    /\ UNCHANGED <<buffer, failure, moved, stream>>

\* summary[x].merge(summary[y]): y is moved into the call
Merge(x, y) ==
    /\ Usable(x) /\ Usable(y)
    /\ x # y
    /\ last' = [op |-> "merge", slot |-> x, arg |-> summary[y].len]
    /\ moved' = moved \cup {y}
    /\ IF merge_accepts(summary[x], summary[y])
       THEN /\ summary' = [summary EXCEPT ![x] = merge(@, summary[y]),
                                          ![y] = Summary_new(@.max_expected_error)]
            /\ stream' = [stream EXCEPT ![x] = AddBag(@, stream[y]),
                                        ![y] = EmptyStream]
            /\ UNCHANGED <<buffer, failure>>
       ELSE /\ failure' = "IncompatibleEpsilon"
            /\ summary' = [summary EXCEPT ![y] = Summary_new(@.max_expected_error)]
            /\ stream' = [stream EXCEPT ![y] = EmptyStream]
            /\ UNCHANGED buffer

\* writer.insert_one(v), writer wrapping summary[WriterSlot]
WriterInsertOne(v) ==
    /\ failure = "none"
    /\ WriterSlot \notin moved
    /\ Total < MaxLen
    /\ last' = [op |-> "writer_insert_one", slot |-> WriterSlot, arg |-> v]
    /\ LET pushed == Append(buffer, v) IN
       IF Len(pushed) = BufferCapacity
       THEN /\ summary' = [summary EXCEPT ![WriterSlot] = flush(@, pushed)]
            /\ stream' = [stream EXCEPT ![WriterSlot] = AddSeq(@, pushed)]
            /\ buffer' = <<>>
       ELSE /\ buffer' = pushed
            /\ UNCHANGED <<summary, stream>>
    /\ UNCHANGED <<failure, moved>>

\* writer.into_summary(), with values pending in the buffer
WriterIntoSummary ==
    /\ failure = "none"
    /\ WriterSlot \notin moved
    /\ buffer # <<>>
    /\ summary' = [summary EXCEPT ![WriterSlot] = flush(@, buffer)]
    /\ stream' = [stream EXCEPT ![WriterSlot] = AddSeq(@, buffer)]
    /\ buffer' = <<>>
    /\ last' = [op |-> "into_summary", slot |-> WriterSlot, arg |-> Len(buffer)]
    /\ UNCHANGED <<failure, moved>>

Next ==
    \/ \E s \in Slots : New(s)
    \/ \E s \in Slots, v \in SpecValues : InsertOne(s, v)
    \/ \E s \in Slots : Compress(s)
    \/ \E x \in Slots, y \in Slots : Merge(x, y)
    \/ \E v \in SpecValues : WriterInsertOne(v)
    \/ WriterIntoSummary

Spec == Init /\ [][Next]_vars

\* insert_one only, on one Summary constructed with any of the epsilons
NextInsert == \E v \in Values : InsertOnly(v)
SpecInsert == Init /\ [][NextInsert]_vars

\* two Summary objects built by insert_one and then merged
InsertBeforeMerge(s, v) ==
    /\ failure = "none"
    /\ moved = {}
    /\ Total < MaxMergeLen
    /\ InsertOneStep(s, v)
MergeOnce(x, y) == moved = {} /\ Merge(x, y)
NextMerge ==
    \/ \E s \in Slots, v \in Values : InsertBeforeMerge(s, v)
    \/ \E x \in Slots, y \in Slots : MergeOnce(x, y)
SpecMerge == Init /\ [][NextMerge]_vars

\* a long stream and a short one, summarised apart and then merged: at most
\* MaxLongLen values go to Summary "a" and at most MaxShortLen to Summary "b"
MaxLongLen == 10
MaxShortLen == 2
InsertBeforeUnevenMerge(s, v) ==
    /\ failure = "none"
    /\ moved = {}
    /\ summary[s].len < (IF s = "a" THEN MaxLongLen ELSE MaxShortLen)
    /\ InsertOneStep(s, v)
NextUnevenMerge ==
    \/ \E s \in Slots, v \in Values : InsertBeforeUnevenMerge(s, v)
    \/ \E x \in Slots, y \in Slots : MergeOnce(x, y)
SpecUnevenMerge == Init /\ [][NextUnevenMerge]_vars

\* a stream chosen against the bound on the number of samples: new samples
\* are stored next to samples that are at the cap, and samples stored earlier
\* receive further values as the cap grows
AdversarialStream == <<
    1009, 1008, 2, 1, 1007, 1007, 1006, 3, 3, 1005, 1005, 4, 5, 5, 1004, 1004, 6, 1002, 1002, 8,
    8, 7, 1001, 1001, 1000, 1000, 9, 999, 999, 998, 998, 10, 11, 11, 997, 997, 12, 996, 996, 995,
    995, 1003, 13, 13, 15, 15, 14, 994, 994, 993, 993, 16, 17, 17, 992, 992, 991, 18, 18, 990,
    990, 987, 19, 19, 22, 22, 20, 21, 21, 989, 989, 988, 23, 23, 986, 986, 985, 24, 24, 984,
    984, 25, 26, 26, 983, 983, 982, 27, 27, 981, 981, 28, 980, 980, 979, 979, 29, 30, 30, 32,
    32, 31, 33, 33, 978, 978, 977, 34, 34, 40, 40, 35, 36, 36, 39, 39, 37, 38, 38, 976,
    976, 41, 42, 42, 975, 975, 974, 973, 973, 44, 44, 43, 45, 45, 972, 972, 46, 47, 47, 49,
    49, 48, 50, 50, 971, 971, 51, 52, 52, 970, 970, 53, 54, 54, 56, 56, 55, 969, 969, 58,
    58, 57, 968, 968, 967, 967, 966, 59, 59, 965, 965, 964, 963, 963, 960, 960, 60, 63, 63, 62,
    62, 61, 962, 962, 961, 961, 64, 959, 959, 66, 66, 65, 958, 958, 957, 957, 67, 68, 68, 956,
    956, 955, 954, 954, 953, 953, 69, 952, 952, 951, 951, 70, 950, 950, 949, 949, 71, 72, 72, 948,
    948, 73, 947, 947, 75, 75, 74, 76, 76, 945, 945, 77, 944, 944, 943, 943, 78, 79, 79, 942,
    942, 946, 80, 80, 941, 941, 940, 81, 81, 939, 939, 938, 937, 937, 936, 936, 82, 83, 83, 935,
    935, 84, 934, 934, 86, 86, 85, 87, 87, 933, 933, 88, 931, 931, 91, 91, 89, 90, 90, 932,
    932, 930, 929, 929, 93, 93, 92, 928, 928, 98, 98, 94, 97, 97, 96, 96, 95, 99, 99, 927,
    927, 100, 101, 101, 107, 107, 102, 103, 103, 106, 106, 104, 105, 105, 926, 926, 108, 109, 109, 925,
    925, 924, 923, 923, 111, 111, 110, 112, 112, 114, 114, 113, 922, 922, 921, 921, 115, 116, 116, 920,
    920, 117, 919, 919, 119, 119, 118, 918, 918, 917, 917, 120, 121, 121, 916, 916, 122, 915, 915, 914,
    914, 123, 913, 913, 912, 912, 911, 910, 910, 125, 125, 124, 126, 126, 128, 128, 127, 909, 909, 908,
    908, 907, 906, 906, 130, 130, 129, 131, 131, 905, 905, 132, 133, 133, 904, 904, 134, 135, 135, 903,
    903, 902, 136, 136, 901, 901, 137, 138, 138, 140, 140, 139, 900, 900, 899, 899, 141, 898, 898, 145,
    145, 142, 144, 144, 143, 143, 146, 147, 147, 153, 153, 148, 149, 149, 152, 152, 150, 151, 151, 897,
    897, 154, 890, 890, 896, 896, 895, 894, 894, 892, 892, 891, 893, 893, 889, 889, 155, 888, 888, 887,
    887, 156, 886, 886, 885, 885, 884, 157, 157, 883, 883, 158, 159, 159, 882, 882, 879, 160, 160, 163,
    163, 161, 162, 162, 881, 881, 880, 878, 878, 877, 877, 164, 165, 165, 167, 167, 166, 876, 876, 875,
    875, 168, 169, 169, 176, 176, 170, 172, 172, 171, 171, 874, 873, 873, 174, 174, 173, 175, 175, 872,
    872, 177, 178, 178, 180, 180, 179, 871, 871, 870, 870, 869, 181, 181, 868, 868, 182, 867, 867, 866,
    866, 865, 864, 864, 184, 184, 183, 185, 185, 863, 863, 186, 862, 862, 861, 861, 187, 188, 188, 860,
    860, 189, 191, 191, 190, 192, 192, 193, 193, 859, 859, 858, 857, 857, 856, 856, 196, 854, 854, 855,
    855, 194, 197, 197, 195, 195, 198, 198, 198, 853, 853, 199, 200, 200, 202, 202, 201, 852, 852, 851,
    851, 850, 203, 203, 849, 849, 204, 205, 205, 207, 207, 206, 208, 208, 848, 848, 219, 209, 209, 212,
    212, 210, 211, 211, 847, 847, 220, 213, 213, 218, 218, 217, 214, 214, 216, 216, 215, 221, 221, 846,
    846, 845, 222, 222, 844, 844, 843, 842, 842, 841, 841, 223, 840, 840, 839, 839, 224, 838, 838, 836,
    836, 226, 225, 225, 837, 837, 835, 227, 227, 834, 834, 833, 228, 228, 832, 832, 831, 830, 830, 829,
    829, 229, 828, 828, 827, 827, 230, 231, 231, 233, 233, 232, 826, 826, 825, 825, 824, 823, 823, 235,
    235, 234, 236, 236, 822, 822, 237, 238, 238, 820, 820, 239, 240, 240, 819, 819, 821, 241, 241, 818,
    818, 816, 815, 815, 814, 814, 242, 243, 243, 813, 813, 817, 812, 812, 811, 811, 244, 245, 245, 810,
    810, 246, 247, 247, 249, 249, 248, 809, 809, 253, 253, 250, 252, 252, 251, 251, 254, 808, 808, 256,
    256, 255, 807, 807, 258, 258, 257, 806, 806, 260, 260, 259, 261, 261, 805, 805, 262, 804, 804, 264,
    264, 263, 265, 265, 803, 803, 266, 267, 267, 269, 269, 268, 802, 802, 801, 801, 800, 270, 270, 799,
    799, 271, 798, 798, 797, 797, 272, 273, 273, 796, 796, 274, 275, 275, 277, 277, 276, 278, 278, 795,
    795, 279, 280, 280, 794, 794, 281, 282, 282, 793, 793, 288, 285, 285, 284, 284, 283, 792, 792, 287,
    287, 286, 289, 289, 791, 791, 290, 790, 790, 789, 789, 291, 788, 788, 293, 293, 292, 294, 294, 787,
    787, 295, 296, 296, 786, 786, 297, 298, 298, 785, 785, 299, 784, 784, 301, 301, 300, 783, 783, 782,
    782, 302, 303, 303, 305, 305, 304, 781, 781, 780, 780, 306, 779, 779, 308, 308, 307, 777, 777, 776,
    776, 778, 775, 775, 774, 774, 309, 318, 318, 315, 315, 310, 314, 314, 312, 312, 311, 313, 313, 773,
    773, 316, 317, 317, 772, 772, 319, 771, 771, 770, 770, 320, 766, 766, 769, 769, 767, 768, 768, 765,
    765, 321, 764, 764, 323, 323, 322, 324, 324, 763, 763, 329, 325, 325, 328, 328, 326, 327, 327, 331,
    331, 330, 332, 332, 762, 762, 333, 761, 761, 760, 760, 334, 759, 759, 336, 336, 335, 758, 758, 755,
    755, 337, 340, 340, 339, 339, 338, 757, 757, 756, 756, 341, 754, 754, 753, 753, 752, 342, 342, 344,
    344, 343, 345, 345, 751, 751, 346, 750, 750, 749, 749, 748, 347, 347, 747, 747, 348, 746, 746, 745,
    745, 349, 744, 744, 743, 743, 742, 741, 741, 740, 740, 739, 735, 735, 737, 737, 736, 738, 738, 734,
    734, 350, 351, 351, 733, 733, 732, 731, 731, 730, 730, 352, 353, 353, 729, 729, 354, 728, 728, 726,
    726, 355, 725, 725, 356, 356, 727, 724, 724, 358, 358, 357, 722, 722, 359, 359, 723, 721, 721, 720,
    720, 719, 360, 360, 718, 718, 717, 716, 716, 715, 715, 361, 714, 714, 713, 713, 712, 711, 711, 363,
    363, 362, 710, 710, 709, 709, 368, 365, 365, 364, 364, 708, 366, 366, 369, 369, 367, 707, 707, 706,
    706, 370, 705, 705, 704, 704, 371, 703, 703, 373, 373, 372, 374, 374, 702, 702, 375, 701, 701, 700,
    700, 699, 698, 698, 377, 377, 376, 378, 378, 697, 697, 379, 380, 380, 696, 696, 381, 695, 695, 383,
    383, 382, 694, 694, 693, 693, 384, 385, 385, 687, 687, 386, 692, 692, 689, 689, 688, 691, 691, 387,
    387, 690, 686, 686, 389, 389, 388, 390, 390, 685, 685, 391, 396, 396, 394, 394, 392, 393, 393, 684,
    684, 395, 397, 397, 399, 399, 398, 683, 683, 682, 682, 400, 401, 401, 681, 681, 402, 404, 404, 403,
    403, 680, 680, 680, 679, 679, 405, 678, 678, 677, 677, 406, 676, 676, 675, 675, 407, 408, 408, 674,
    674, 673, 672, 672, 671, 671, 409, 670, 670, 411, 411, 410, 669, 669, 413, 413, 412, 668, 668, 667,
    667, 414, 419, 419, 416, 416, 415, 418, 418, 417, 417, 420, 421, 421, 666, 666, 422, 423, 423, 430,
    430, 424, 429, 429, 428, 428, 425, 426, 426, 427, 427, 432, 433, 433, 665, 665, 434, 435, 435, 664,
    664, 436, 663, 663, 662, 662, 437, 661, 661, 660, 660, 438, 440, 440, 441, 439, 441, 659, 659, 658,
    658, 442, 443, 443, 657, 657, 431, 656, 656, 445, 445, 444, 655, 655, 653, 653, 649, 651, 654, 651,
    651, 650, 652, 652, 648, 648, 647, 646, 646, 645, 645, 446, 447, 447, 644, 644, 643, 642, 642, 641,
    641, 640, 448, 448, 639, 639, 449, 450, 450, 638, 638, 451, 452, 452, 637, 637, 636, 454, 454, 635,
    635, 455, 634, 634, 633, 633, 456, 632, 632, 453, 458, 458, 625, 625, 631, 631, 457, 630, 630, 629,
    629, 626, 627, 627, 628, 628, 459, 624, 624, 622, 622, 461, 460, 460, 623, 623, 621, 620, 620, 463,
    463, 462, 464, 464, 619, 619, 465, 466, 466, 618, 618, 617, 616, 616, 468, 468, 467, 615, 615, 614,
    614, 469, 613, 613, 473, 473, 470, 472, 472, 471, 471, 612, 474, 474, 476, 476, 475, 477, 477, 611,
    611, 610, 609, 609, 479, 479, 478, 606, 606, 481, 481, 480, 483, 483, 482, 482, 608, 607, 607, 605,
    605, 484, 604, 604, 603, 603, 485, 602, 602, 487, 487, 486, 488, 488, 601, 601, 489, 490, 490, 600,
    600, 491, 492, 492, 599, 599, 598, 597, 597, 596, 596, 493, 494, 494, 496, 496, 495, 497, 497, 595,
    595, 498, 500, 500, 501, 501, 499, 502, 502, 594, 594, 503, 504, 504, 506, 506, 505, 507, 507, 593,
    593, 509, 510, 510, 592, 592, 511, 591, 508, 591, 591, 512, 590, 590, 514, 514, 513, 589, 589, 588,
    588, 587, 586, 586, 585, 585, 515, 584, 584, 583, 583, 582, 516, 516, 581, 581, 517, 518, 518, 580,
    580, 519, 520, 520, 522, 522, 521, 579, 579, 524, 524, 523, 575, 575, 578, 578, 576, 577, 577, 574,
    574, 525, 573, 573, 572, 572, 526, 527, 527, 571, 571, 528, 529, 529, 570, 570, 530, 569, 569, 532,
    532, 531, 568, 568, 567, 567, 533, 566, 566, 565, 565, 534, 564, 564, 536, 536, 535, 563, 563, 538,
    538, 537, 562, 562, 540, 540, 539, 561, 561, 560, 560, 541, 556, 556, 558, 558, 557, 559, 559, 554,
    554, 542, 553, 553, 552, 552, 549, 550, 550, 551, 551, 548, 543, 543, 547, 547, 555, 546, 546, 545,
    545, 544 >>

\* summary["a"].insert_one(v) for the next value v of AdversarialStream; the
\* values lie outside Values, so no stream is recorded for them
InsertAdversarial ==
    /\ failure = "none"
    /\ summary["a"].len < Len(AdversarialStream)
    /\ LET v == AdversarialStream[summary["a"].len + 1] IN
       /\ last' = [op |-> "insert_one", slot |-> "a", arg |-> v]
       /\ \/ \* release build, or the debug assertions hold
             /\ summary' = [summary EXCEPT !["a"] = insert_one(@, v)]
             /\ UNCHANGED <<buffer, failure, moved, stream>>
          \/ \* debug build: a debug_assert_eq! panics after len was incremented
             /\ ~debug_asserts_hold(summary["a"].samples, v)
             /\ summary' = [summary EXCEPT !["a"].len = @ + 1]
             /\ failure' = "DebugAssertion"
             /\ UNCHANGED <<buffer, moved, stream>>
SpecAdversarial == Init /\ [][InsertAdversarial]_vars

\* the same values given to a SummaryWriter wrapping summary["a"] (extend calls
\* insert_one for each value) and to summary["b"] by Summary::insert_one
MaxBatchLen == 5
InitBatchStream ==
    /\ \E e \in Epsilons : summary = [s \in Slots |-> Summary_new(e)]
    /\ buffer = <<>>
    /\ failure = "none"
    /\ moved = {}
    /\ stream = [s \in Slots |-> EmptyStream]
    /\ last = [op |-> "new", slot |-> "a", arg |-> 0]

FeedBoth(v) ==
    /\ failure = "none"
    /\ summary["b"].len < MaxBatchLen
    /\ last' = [op |-> "writer_insert_one", slot |-> WriterSlot, arg |-> v]
    /\ moved' = moved
    /\ LET pushed == Append(buffer, v)
           full == Len(pushed) = BufferCapacity
           written == IF full THEN flush(summary[WriterSlot], pushed)
                      ELSE summary[WriterSlot]
       IN
       /\ buffer' = IF full THEN <<>> ELSE pushed
       /\ \/ /\ summary' = [a |-> written, b |-> insert_one(summary["b"], v)]
             /\ stream' = [a |-> IF full THEN AddSeq(stream["a"], pushed) ELSE stream["a"],
                           b |-> AddValue(stream["b"], v)]
             /\ failure' = failure
          \/ /\ ~debug_asserts_hold(summary["b"].samples, v)
             /\ summary' = [a |-> written, b |-> [summary["b"] EXCEPT !.len = @ + 1]]
             /\ stream' = stream
             /\ failure' = "DebugAssertion"

NextBatchStream ==
    \/ \E v \in Values : FeedBoth(v)
    \/ WriterIntoSummary

SpecBatchStream == InitBatchStream /\ [][NextBatchStream]_vars

\* a SummaryWriter wrapping summary["a"], which may already hold values:
\* writer.into_summary() with any number of pending values, then
\* SummaryWriter::with_summary_and_capacity(summary, BufferCapacity) again
IntoSummary ==
    /\ failure = "none"
    /\ WriterSlot \notin moved
    /\ summary' = [summary EXCEPT ![WriterSlot] = flush(@, buffer)]
    /\ stream' = [stream EXCEPT ![WriterSlot] = AddSeq(@, buffer)]
    /\ buffer' = <<>>
    /\ last' = [op |-> "into_summary", slot |-> WriterSlot, arg |-> Len(buffer)]
    /\ UNCHANGED <<failure, moved>>

NextWriter ==
    \/ \E v \in Values : InsertOne(WriterSlot, v)
    \/ \E v \in Values : WriterInsertOne(v)
    \/ IntoSummary

SpecWriter == Init /\ [][NextWriter]_vars

\* the values of the tests insert_one_by_one_and_query and writer, given in
\* this order to summary["a"] by insert_one; compress() and
\* query_with_error(rank_to_quantile(r, len)) follow the insertions
TestValues == <<8, 6, 0, 4, 3, 9, 2, 5, 1, 7>>

InsertTestValue ==
    /\ failure = "none"
    /\ last.op \in {"new", "insert_one"}
    /\ summary["a"].len < Len(TestValues)
    /\ LET v == TestValues[summary["a"].len + 1] IN
       /\ last' = [op |-> "insert_one", slot |-> "a", arg |-> v]
       /\ \/ /\ summary' = [summary EXCEPT !["a"] = insert_one(@, v)]
             /\ UNCHANGED <<buffer, failure, moved, stream>>
          \/ /\ ~debug_asserts_hold(summary["a"].samples, v)
             /\ summary' = [summary EXCEPT !["a"].len = @ + 1]
             /\ failure' = "DebugAssertion"
             /\ UNCHANGED <<buffer, moved, stream>>

CompressAfterInserts ==
    /\ failure = "none"
    /\ last.op = "insert_one"
    /\ summary' = [summary EXCEPT !["a"] = compress(@)]
    /\ last' = [op |-> "compress", slot |-> "a", arg |-> 0]
    /\ UNCHANGED <<buffer, failure, moved, stream>>

QueryRank(r) ==
    /\ failure = "none"
    /\ last.op # "new"
    /\ last' = [op |-> "query_with_error", slot |-> "a",
                arg |-> [compressed |-> IF last.op = "query_with_error"
                                        THEN last.arg.compressed
                                        ELSE last.op = "compress",
                         rank |-> r,
                         answer |-> query_with_error(summary["a"],
                                        rank_to_quantile(r, summary["a"].len))]]
    /\ UNCHANGED <<summary, buffer, failure, moved, stream>>

NextInsertTest ==
    \/ InsertTestValue
    \/ CompressAfterInserts
    \/ \E r \in 1..summary["a"].len : QueryRank(r)

SpecInsertTest == Init /\ [][NextInsertTest]_vars

\* the test writer: SummaryWriter::with_capacity(epsilon, 3) wrapping
\* summary["a"], extended with a prefix of TestValues, then into_summary();
\* the returned Summary is queried
TestBufferCapacity == 3

WriterTestValue ==
    /\ failure = "none"
    /\ last.op \in {"new", "writer_insert_one"}
    /\ summary["a"].len + Len(buffer) < Len(TestValues)
    /\ LET v == TestValues[summary["a"].len + Len(buffer) + 1]
           pushed == Append(buffer, v)
       IN
       /\ last' = [op |-> "writer_insert_one", slot |-> "a", arg |-> v]
       /\ IF Len(pushed) = TestBufferCapacity
          THEN /\ summary' = [summary EXCEPT !["a"] = flush(@, pushed)]
               /\ buffer' = <<>>
          ELSE /\ buffer' = pushed
               /\ UNCHANGED summary
    /\ UNCHANGED <<failure, moved, stream>>

IntoSummaryTest ==
    /\ failure = "none"
    /\ last.op \in {"new", "writer_insert_one"}
    /\ summary' = [summary EXCEPT !["a"] = flush(@, buffer)]
    /\ buffer' = <<>>
    /\ last' = [op |-> "into_summary", slot |-> "a", arg |-> Len(buffer)]
    /\ UNCHANGED <<failure, moved, stream>>

QueryWritten(r) ==
    /\ failure = "none"
    /\ last.op \in {"into_summary", "query_with_error"}
    /\ last' = [op |-> "query_with_error", slot |-> "a",
                arg |-> [rank |-> r,
                         answer |-> query_with_error(summary["a"],
                                        rank_to_quantile(r, summary["a"].len))]]
    /\ UNCHANGED <<summary, buffer, failure, moved, stream>>

NextWriterTest ==
    \/ WriterTestValue
    \/ IntoSummaryTest
    \/ \E r \in 1..summary["a"].len : QueryWritten(r)

SpecWriterTest == Init /\ [][NextWriterTest]_vars

\* Summary::band called with any delta and p up to MaxBandP
MaxBandP == 30
BandCall(delta, p) ==
    /\ failure = "none"
    /\ failure' = IF delta <= p THEN "none" ELSE "BandAssertion"
    /\ last' = [op |-> "band", slot |-> "a",
                arg |-> [delta |-> delta, p |-> p,
                         band |-> IF delta <= p THEN gk_band(delta, p) ELSE Underflow]]
    /\ UNCHANGED <<summary, buffer, moved, stream>>

NextBand == \E delta \in 0..MaxBandP, p \in 0..MaxBandP : BandCall(delta, p)
SpecBand == Init /\ [][NextBand]_vars

\* the table of the test bands: row p + 1, column delta + 1
BandTable == <<
    <<0>>,
    <<1, 0>>,
    <<2, 1, 0>>,
    <<2, 1, 1, 0>>,
    <<3, 2, 2, 1, 0>>,
    <<3, 2, 2, 1, 1, 0>>,
    <<3, 2, 2, 2, 2, 1, 0>>,
    <<3, 2, 2, 2, 2, 1, 1, 0>>,
    <<4, 3, 3, 3, 3, 2, 2, 1, 0>>,
    <<4, 3, 3, 3, 3, 2, 2, 1, 1, 0>>,
    <<4, 3, 3, 3, 3, 2, 2, 2, 2, 1, 0>>,
    <<4, 3, 3, 3, 3, 2, 2, 2, 2, 1, 1, 0>>,
    <<4, 3, 3, 3, 3, 3, 3, 3, 3, 2, 2, 1, 0>>,
    <<4, 3, 3, 3, 3, 3, 3, 3, 3, 2, 2, 1, 1, 0>>,
    <<4, 3, 3, 3, 3, 3, 3, 3, 3, 2, 2, 2, 2, 1, 0>>,
    <<4, 3, 3, 3, 3, 3, 3, 3, 3, 2, 2, 2, 2, 1, 1, 0>>,
    <<5, 4, 4, 4, 4, 4, 4, 4, 4, 3, 3, 3, 3, 2, 2, 1, 0>>,
    <<5, 4, 4, 4, 4, 4, 4, 4, 4, 3, 3, 3, 3, 2, 2, 1, 1, 0>>,
    <<5, 4, 4, 4, 4, 4, 4, 4, 4, 3, 3, 3, 3, 2, 2, 2, 2, 1, 0>>,
    <<5, 4, 4, 4, 4, 4, 4, 4, 4, 3, 3, 3, 3, 2, 2, 2, 2, 1, 1, 0>>,
    <<5, 4, 4, 4, 4, 4, 4, 4, 4, 3, 3, 3, 3, 3, 3, 3, 3, 2, 2, 1, 0>>,
    <<5, 4, 4, 4, 4, 4, 4, 4, 4, 3, 3, 3, 3, 3, 3, 3, 3, 2, 2, 1, 1, 0>>,
    <<5, 4, 4, 4, 4, 4, 4, 4, 4, 3, 3, 3, 3, 3, 3, 3, 3, 2, 2, 2, 2, 1, 0>>,
    <<5, 4, 4, 4, 4, 4, 4, 4, 4, 3, 3, 3, 3, 3, 3, 3, 3, 2, 2, 2, 2, 1, 1, 0>>,
    <<5, 4, 4, 4, 4, 4, 4, 4, 4, 4, 4, 4, 4, 4, 4, 4, 4, 3, 3, 3, 3, 2, 2, 1, 0>>,
    <<5, 4, 4, 4, 4, 4, 4, 4, 4, 4, 4, 4, 4, 4, 4, 4, 4, 3, 3, 3, 3, 2, 2, 1, 1, 0>>,
    <<5, 4, 4, 4, 4, 4, 4, 4, 4, 4, 4, 4, 4, 4, 4, 4, 4, 3, 3, 3, 3, 2, 2, 2, 2, 1, 0>>,
    <<5, 4, 4, 4, 4, 4, 4, 4, 4, 4, 4, 4, 4, 4, 4, 4, 4, 3, 3, 3, 3, 2, 2, 2, 2, 1, 1, 0>>,
    <<5, 4, 4, 4, 4, 4, 4, 4, 4, 4, 4, 4, 4, 4, 4, 4, 4, 3, 3, 3, 3, 3, 3, 3, 3, 2, 2, 1, 0>>,
    <<5, 4, 4, 4, 4, 4, 4, 4, 4, 4, 4, 4, 4, 4, 4, 4, 4, 3, 3, 3, 3, 3, 3, 3, 3, 2, 2, 1, 1, 0>>,
    <<5, 4, 4, 4, 4, 4, 4, 4, 4, 4, 4, 4, 4, 4, 4, 4, 4, 3, 3, 3, 3, 3, 3, 3, 3, 2, 2, 2, 2, 1, 0>> >>

\* the baseline Summary in summary["a"], given distinct values by insert_one;
\* stream["a"] counts the values given
MaxGkValue == 6
GkValues == 1..MaxGkValue
InitGk ==
    /\ \E e \in Epsilons : summary = [s \in Slots |-> gk_new(e)]
    /\ buffer = <<>>
    /\ failure = "none"
    /\ moved = {}
    /\ stream = [s \in Slots |-> [v \in GkValues |-> 0]]
    /\ last = [op |-> "new", slot |-> "a", arg |-> 0]

\* a compress is due and band would fail its assert!(delta <= p)
gk_band_assert_fails(self) ==
    /\ self.len > 0
    /\ self.len % gk_compress_frequency(self.epsilon) = 0
    /\ \E k \in 1..Len(self.samples) :
          self.samples[k].delta > gk_threshold(self.epsilon, self.len)

GkInsertOne(v) ==
    /\ failure = "none"
    /\ stream["a"][v] = 0
    /\ last' = [op |-> "insert_one", slot |-> "a", arg |-> v]
    /\ IF gk_band_assert_fails(summary["a"])
       THEN /\ failure' = "BandAssertion"
            /\ UNCHANGED <<summary, stream>>
       ELSE /\ summary' = [summary EXCEPT !["a"] = gk_insert_one(@, v)]
            /\ stream' = [stream EXCEPT !["a"][v] = 1]
            /\ failure' = failure
    /\ UNCHANGED <<buffer, moved>>

NextGk == \E v \in GkValues : GkInsertOne(v)
SpecGk == InitGk /\ [][NextGk]_vars

\* insert_without_compression called directly, as the tests
\* ascending_insertion, unordered_insertion and query_full do: any values
\* while the stream is short, then a longer non-decreasing run of small values
MaxGkLen == 4
MaxAscendingLen == 25
MaxAscendingValue == 2
gk_all_exact(samples) ==
    \A k \in 1..Len(samples) : samples[k].g = 1 /\ samples[k].delta = 0

GkInsertWithoutCompression(v) ==
    /\ failure = "none"
    /\ \/ summary["a"].len < MaxGkLen
       \/ /\ summary["a"].len < MaxAscendingLen
          /\ v <= MaxAscendingValue
          /\ summary["a"].samples # <<>>
          /\ v >= summary["a"].samples[Len(summary["a"].samples)].value
          /\ gk_all_exact(summary["a"].samples)
    /\ summary' = [summary EXCEPT !["a"] = gk_insert_without_compression(@, v)]
    /\ stream' = [stream EXCEPT !["a"][v] = @ + 1]
    /\ last' = [op |-> "insert_without_compression", slot |-> "a", arg |-> v]
    /\ UNCHANGED <<buffer, failure, moved>>

NextGkNoCompress == \E v \in GkValues : GkInsertWithoutCompression(v)
SpecGkNoCompress == InitGk /\ [][NextGkNoCompress]_vars

\* how a call of compress of the baseline ends: "none" when it returns;
\* with no samples self.samples.len() - 1 overflows usize, which panics in a
\* build with overflow checks and otherwise wraps, and then self.samples[i]
\* is out of bounds; band asserts delta <= p
gk_compress_failures(self) ==
    IF self.samples = <<>> THEN {"SubtractOverflow", "IndexOutOfBounds"}
    ELSE IF \E k \in 1..Len(self.samples) :
               self.samples[k].delta > gk_threshold(self.epsilon, self.len)
    THEN {"BandAssertion"}
    ELSE {"none"}

\* self.samples.extend(other.samples); self.samples.sort(): a stable sort on
\* value of two sorted runs
RECURSIVE gk_extend_and_sort(_, _)
gk_extend_and_sort(samples, other_samples) ==
    IF samples = <<>> THEN other_samples
    ELSE IF other_samples = <<>> THEN samples
    ELSE IF other_samples[1].value < samples[1].value
    THEN <<other_samples[1]>> \o gk_extend_and_sort(samples, Tail(other_samples))
    ELSE <<samples[1]>> \o gk_extend_and_sort(Tail(samples), other_samples)

\* Summary::merge of the baseline from self.len += other.len on, given both
\* operands compressed
gk_merge_compressed(self, other) ==
    [self EXCEPT !.len = self.len + other.len,
                 !.samples = gk_extend_and_sort(self.samples, other.samples)]

\* two baseline Summary objects with the same epsilon, given values by
\* insert_one and merged in either direction; merge consumes the other one
MaxGkMergeLen == 3

GkMergeInsert(s, v) ==
    /\ failure = "none"
    /\ s \notin moved
    /\ summary[s].len < MaxGkMergeLen
    /\ last' = [op |-> "insert_one", slot |-> s, arg |-> v]
    /\ IF gk_band_assert_fails(summary[s])
       THEN /\ failure' = "BandAssertion"
            /\ UNCHANGED <<summary, stream>>
       ELSE /\ summary' = [summary EXCEPT ![s] = gk_insert_one(@, v)]
            /\ stream' = [stream EXCEPT ![s][v] = @ + 1]
            /\ failure' = failure
    /\ UNCHANGED <<buffer, moved>>

GkMerge(x, y) ==
    LET self == summary[x]
        other == summary[y]
    IN
    /\ failure = "none"
    /\ x # y
    /\ moved = {}
    /\ moved' = {y}
    /\ last' = [op |-> "merge", slot |-> x, arg |-> [self |-> self, other |-> other]]
    /\ IF self.epsilon # other.epsilon
       THEN failure' = "EpsilonAssertion" /\ UNCHANGED <<summary, stream>>
       ELSE \E first \in gk_compress_failures(self) :
            \E second \in gk_compress_failures(other) :
               IF first # "none"
               THEN failure' = first /\ UNCHANGED <<summary, stream>>
               ELSE IF second # "none"
               THEN failure' = second /\ UNCHANGED <<summary, stream>>
               ELSE LET merged == gk_merge_compressed(gk_compress(self),
                                                      gk_compress(other))
                    IN
                    \E third \in gk_compress_failures(merged) :
                       /\ failure' = third
                       /\ IF third # "none" THEN UNCHANGED <<summary, stream>>
                          ELSE /\ summary' = [summary EXCEPT ![x] = gk_compress(merged)]
                               /\ stream' = [stream EXCEPT ![x] =
                                                [v \in GkValues |-> stream[x][v] + stream[y][v]]]
    /\ UNCHANGED buffer

NextGkMerge ==
    \/ \E s \in Slots : \E v \in GkValues : GkMergeInsert(s, v)
    \/ \E x \in Slots : \E y \in Slots : GkMerge(x, y)

SpecGkMerge == InitGk /\ [][NextGkMerge]_vars

\* a BTree in summary["a"].tree, filled by insert or by the loop of from_iter,
\* whose local variable is summary["a"].ascending; fast counts the calls of
\* insert_max.  Any values are inserted while few went through try_insert;
\* the ascending prefix of from_iter may be long, any values at its start
\* and then repetitions of the maximum.
MaxTreeValue == 2
MaxTreeLen == 30
MaxFastLen == 80
MaxFreeFast == 4
MaxSlowAfterFast == 3
TreeValues == 1..MaxTreeValue

InitTree ==
    /\ summary = [s \in Slots |-> [tree |-> BTree_new, ascending |-> None, fast |-> 0]]
    /\ buffer = <<>>
    /\ failure = "none"
    /\ moved = {}
    /\ stream = [s \in Slots |-> [v \in TreeValues |-> 0]]
    /\ last = [op |-> "new", slot |-> "a", arg |-> 0]

\* tree.insert(value), called directly or by from_iter: the first value, and
\* every value once ascending is None
BTreeInsert(value) ==
    LET self == summary["a"] IN
    /\ failure = "none"
    /\ self.tree.len = 0 \/ self.ascending = None
    /\ self.tree.len - self.fast < (IF self.fast = 0 THEN MaxTreeLen ELSE MaxSlowAfterFast + 1)
    /\ \/ /\ summary' = [summary EXCEPT !["a"].tree = BTree_insert(@, value)]
          /\ last' = [op |-> "insert", slot |-> "a", arg |-> value]
       \/ /\ self.tree.len = 0
          /\ summary' = [summary EXCEPT !["a"].tree = BTree_insert(@, value),
                                        !["a"].ascending = Some(value)]
          /\ last' = [op |-> "from_iter", slot |-> "a", arg |-> value]
    /\ stream' = [stream EXCEPT !["a"][value] = @ + 1]
    /\ UNCHANGED <<buffer, failure, moved>>

\* the body of the loop of from_iter while ascending is Some(max)
FromIterNext(value) ==
    LET self == summary["a"] IN
    /\ failure = "none"
    /\ self.tree.len > 0 /\ self.ascending # None
    /\ self.fast < MaxFastLen
    /\ self.fast < MaxFreeFast \/ value <= self.ascending[1]
    /\ IF value >= self.ascending[1]
       THEN summary' = [summary EXCEPT !["a"].tree = BTree_insert_max(@, value),
                                       !["a"].ascending = Some(value),
                                       !["a"].fast = @ + 1]
       ELSE summary' = [summary EXCEPT !["a"].tree = BTree_insert(@, value),
                                       !["a"].ascending = None]
    /\ last' = [op |-> "from_iter", slot |-> "a", arg |-> value]
    /\ stream' = [stream EXCEPT !["a"][value] = @ + 1]
    /\ UNCHANGED <<buffer, failure, moved>>

NextTree ==
    \/ \E value \in TreeValues : BTreeInsert(value)
    \/ \E value \in TreeValues : FromIterNext(value)

SpecTree == InitTree /\ [][NextTree]_vars

\* a BTree in summary["a"].tree filled with the ascending even values 2, 4,
\* ... by insert_max, deep enough for three levels of nodes, and then
\* searched by try_insert: first with any value up to above the maximum,
\* then with the previous search value or the next one.  The closure
\* returns None or the search value.  stream["a"] holds the elements before
\* the last call.
MaxSiteLen == 80
MaxSiteTries == 2

InitSite ==
    /\ summary = [s \in Slots |-> [tree |-> BTree_new, tries |-> 0]]
    /\ buffer = <<>>
    /\ failure = "none"
    /\ moved = {}
    /\ stream = [s \in Slots |-> <<>>]
    /\ last = [op |-> "new", slot |-> "a", arg |-> 0]

SiteInsertMax ==
    LET self == summary["a"] IN
    /\ failure = "none"
    /\ self.tries = 0
    /\ self.tree.len < MaxSiteLen
    /\ summary' = [summary EXCEPT !["a"].tree =
                       BTree_insert_max(@, 2 * (self.tree.len + 1))]
    /\ stream' = [stream EXCEPT !["a"] = BTree_iter(self.tree)]
    /\ last' = [op |-> "insert_max", slot |-> "a", arg |-> 2 * (self.tree.len + 1)]
    /\ UNCHANGED <<buffer, failure, moved>>

SiteSearchValues ==
    IF summary["a"].tries = 0 THEN 0..(2 * summary["a"].tree.len + 1)
    ELSE {last.arg.search_value, last.arg.search_value + 1}

SiteTryInsert(search_value, inserts) ==
    LET self == summary["a"]
        get_insert_value == IF inserts THEN Some(search_value) ELSE None
        result == BTree_try_insert(self.tree, search_value, get_insert_value)
    IN
    /\ failure = "none"
    /\ self.tries < MaxSiteTries
    /\ summary' = [summary EXCEPT !["a"].tree = result.tree,
                                  !["a"].tries = @ + 1]
    /\ failure' = IF result.point.kind = "Panic" THEN "Panic" ELSE failure
    /\ stream' = [stream EXCEPT !["a"] = BTree_iter(self.tree)]
    /\ last' = [op |-> "try_insert", slot |-> "a",
                arg |-> [search_value |-> search_value,
                         get_insert_value |-> get_insert_value,
                         point |-> result.point,
                         len |-> self.tree.len]]
    /\ UNCHANGED <<buffer, moved>>

NextSite ==
    \/ SiteInsertMax
    \/ \E search_value \in SiteSearchValues : \E inserts \in BOOLEAN :
          SiteTryInsert(search_value, inserts)

SpecSite == InitSite /\ [][NextSite]_vars

\* the quantiles 0, 1/QuantileSteps, ..., 1 asked of a Summary
QuantileSteps == 2
Quantiles == {<<n, QuantileSteps>> : n \in 0..QuantileSteps}
\* quantiles below 0 and above 1, near the interval and away from it
OutOfRangeQuantiles == {<<-1, 2>>, <<-1, 100>>, <<101, 100>>, <<3, 2>>}

\* summary["a"].query_with_error(quantile): quantile_to_rank panics when the
\* quantile is out of range, before the samples are looked at
QueryOnly(quantile) ==
    /\ failure = "none"
    /\ failure' = IF quantile_in_range(quantile) THEN "none" ELSE "InvalidQuantile"
    /\ last' = [op |-> "query_with_error", slot |-> "a",
                arg |-> [quantile |-> quantile,
                         answer |-> IF quantile_in_range(quantile)
                                    THEN query_with_error(summary["a"], quantile)
                                    ELSE None]]
    /\ UNCHANGED <<summary, buffer, moved, stream>>

\* insert_one and query_with_error on one Summary
NextQuery ==
    \/ \E v \in SpecValues : InsertOnly(v)
    \/ \E quantile \in Quantiles \cup OutOfRangeQuantiles : QueryOnly(quantile)
SpecQuery == Init /\ [][NextQuery]_vars

\* the largest num given to quantile_to_rank, and the largest denominator of
\* a quantile given to it
MaxNum == 25
RankQuantiles == {q \in (0..MaxNum) \X (1..MaxNum) : q[1] <= q[2]}

\* quantile_to_rank(quantile, num)
QuantileToRank(quantile, num) ==
    /\ failure = "none"
    /\ quantile_in_range(quantile)
    /\ last' = [op |-> "quantile_to_rank", slot |-> "a",
                arg |-> [quantile |-> quantile, num |-> num,
                         rank |-> quantile_to_rank(quantile, num)]]
    /\ UNCHANGED <<summary, buffer, failure, moved, stream>>

\* one call of quantile_to_rank
NextRank ==
    /\ last.op = "new"
    /\ \E quantile \in RankQuantiles, num \in 1..MaxNum : QuantileToRank(quantile, num)
SpecRank == Init /\ [][NextRank]_vars

\* ------------------------------------------------------ RandomGenerator
\* rng.gen::<f64>() is a multiple of 2^-53 in [0, 1).  A draw is <<c, f>>, the
\* f64 c / DrawSteps + f * 2^-53, with f * 2^-53 far below 1 / DrawSteps.
DrawBits == 2
DrawSteps == 2 ^ DrawBits
\* the value given to RandomGenerator::new by the tests
TargetValue == 17
\* the ulp of the f64 TargetValue in units of 2^-53: 2^(e - 52 + 53)
UlpOfTarget == 2 ^ (floor_log2(TargetValue, 1) + 1)
\* the draws below 1 / DrawSteps: the smallest one, half an ulp of the target
\* and the next draw above it
FineDraws == {1, UlpOfTarget \div 2, UlpOfTarget \div 2 + 1}
Draws == {<<c, 0>> : c \in 0..(DrawSteps - 1)} \cup {<<0, f>> : f \in FineDraws}

\* r == 0.
draw_is_zero(r) == r[1] = 0 /\ r[2] = 0

\* r < a as f64 / b as f64 for 0 <= a <= b, b > 0.  c / DrawSteps is an f64,
\* and when it differs from a / b it does so by far more than the rounding of
\* the division and than f * 2^-53.
draw_less_than_ratio(r, a, b) == r[1] * b < a * DrawSteps

\* f * 2^-53 in ulps of the target, rounded to nearest, ties to even: the
\* significands of the target and of c / DrawSteps are even
round_to_ulps(f) ==
    LET q == f \div UlpOfTarget
        rest == f % UlpOfTarget
    IN
    IF 2 * rest > UlpOfTarget \/ (2 * rest = UlpOfTarget /\ q % 2 = 1)
    THEN q + 1 ELSE q

\* the f64 self.value + r and self.value - r as an offset from self.value:
\* <<multiples of 1 / DrawSteps, ulps>>
value_plus(r) == <<r[1], round_to_ulps(r[2])>>
value_minus(r) == <<0 - r[1], 0 - round_to_ulps(r[2])>>

\* RandomGenerator::new(quantile, value, num, seed): the seed only chooses
\* the draws
RandomGenerator_new(quantile, num) ==
    [remaining_lesser |-> quantile_to_rank(quantile, num) - 1,
     remaining |-> num - 1,
     published_value |-> FALSE]

\* next gives a lesser value
draws_lesser(self, r1, r2) ==
    /\ ~(self.remaining = 0 /\ self.published_value)
    /\ self.published_value \/ ~draw_less_than_ratio(r1, 1, self.remaining + 1)
    /\ draw_less_than_ratio(r2, self.remaining_lesser, self.remaining)

\* RandomGenerator::next with the draws r1 (publish the target?), r2 (greater
\* or lesser?) and r3 (the distance from the target; for a lesser value, the
\* draw that ended the loop of next_non_zero_random)
RandomGenerator_next(self, r1, r2, r3) ==
    IF self.remaining = 0 /\ self.published_value
    THEN [self |-> self, item |-> None]
    ELSE IF ~self.published_value /\ draw_less_than_ratio(r1, 1, self.remaining + 1)
    THEN [self |-> [self EXCEPT !.published_value = TRUE], item |-> Some(<<0, 0>>)]
    ELSE IF ~draw_less_than_ratio(r2, self.remaining_lesser, self.remaining)
    THEN [self |-> [self EXCEPT !.remaining = @ - 1], item |-> Some(value_plus(r3))]
    ELSE [self |-> [self EXCEPT !.remaining = @ - 1, !.remaining_lesser = @ - 1],
          item |-> Some(value_minus(r3))]

\* the largest num given to RandomGenerator::new
MaxGenNum == 3
GenQuantiles == {q \in (0..MaxGenNum) \X (1..MaxGenNum) : q[1] <= q[2]}

\* let it = RandomGenerator::new(quantile, TargetValue, num, seed); stream["a"]
\* is the Vec the values are collected into
InitGen ==
    /\ \E quantile \in GenQuantiles, num \in 1..MaxGenNum :
          /\ summary = [s \in Slots |-> RandomGenerator_new(quantile, num)]
          /\ last = [op |-> "new", slot |-> "a",
                     arg |-> [quantile |-> quantile, num |-> num]]
    /\ buffer = <<>>
    /\ failure = "none"
    /\ moved = {}
    /\ stream = [s \in Slots |-> <<>>]

\* one it.next() of gen.collect(): the item is pushed, None ends the collection
GenNext(r1, r2, r3) ==
    /\ failure = "none"
    /\ last.op # "collected"
    /\ draws_lesser(summary["a"], r1, r2) => ~draw_is_zero(r3)
    /\ LET res == RandomGenerator_next(summary["a"], r1, r2, r3)
       IN
       /\ summary' = [summary EXCEPT !["a"] = res.self]
       /\ stream' = IF res.item = None THEN stream
                    ELSE [stream EXCEPT !["a"] = Append(@, res.item[1])]
       /\ last' = [last EXCEPT !.op = IF res.item = None THEN "collected" ELSE "next"]
    /\ UNCHANGED <<buffer, failure, moved>>

NextGen == \E r1 \in Draws, r2 \in Draws, r3 \in Draws : GenNext(r1, r2, r3)
SpecGen == InitGen /\ [][NextGen]_vars

\* one Summary given distinct values of 1..MaxDistinctValue in any order by
\* insert_one, and compressed at any time
MaxDistinctValue == 6
DistinctValues == 1..MaxDistinctValue

InitDistinct ==
    /\ \E e \in Epsilons : summary = [s \in Slots |-> Summary_new(e)]
    /\ buffer = <<>>
    /\ failure = "none"
    /\ moved = {}
    /\ stream = [s \in Slots |-> [v \in DistinctValues |-> 0]]
    /\ last = [op |-> "new", slot |-> "a", arg |-> 0]

InsertDistinct(v) ==
    /\ failure = "none"
    /\ stream["a"][v] = 0
    /\ InsertOneStep("a", v)

NextDistinct ==
    \/ \E v \in DistinctValues : InsertDistinct(v)
    \/ Compress("a")
SpecDistinct == InitDistinct /\ [][NextDistinct]_vars

\* a SamplesCompressor given up to MaxPushed samples with g in 1..MaxG and
\* delta in 0..MaxDelta, constructed with max_g_delta in 0..MaxCap
MaxPushed == 4
MaxG == 2
MaxDelta == 1
MaxCap == 4

\* SamplesCompressor::new(cap); last.arg holds the samples pushed so far, the
\* compressor and, after into_samples, the samples it returned
InitCompressor ==
    /\ summary = [s \in Slots |-> Summary_new(<<1, 5>>)]
    /\ buffer = <<>>
    /\ failure = "none"
    /\ moved = {}
    /\ stream = [s \in Slots |-> EmptyStream]
    /\ \E cap \in 0..MaxCap :
          last = [op |-> "compressor_new", slot |-> "a",
                  arg |-> [input |-> <<>>, compressor |-> SamplesCompressor_new(cap),
                           output |-> <<>>]]

\* compressor.push(Sample { value, g, delta }); the samples come in ascending
\* order, the value of a sample is its position in the input (push never
\* reads a value)
CompressorPush(g, delta) ==
    /\ last.op \in {"compressor_new", "push"}
    /\ Len(last.arg.input) < MaxPushed
    /\ LET sample == Sample(Len(last.arg.input) + 1, g, delta) IN
       last' = [op |-> "push", slot |-> "a",
                arg |-> [input |-> Append(last.arg.input, sample),
                         compressor |-> push(last.arg.compressor, sample),
                         output |-> <<>>]]
    /\ UNCHANGED <<summary, buffer, failure, moved, stream>>

\* compressor.into_samples()
CompressorIntoSamples ==
    /\ last.op \in {"compressor_new", "push"}
    /\ last' = [op |-> "into_samples", slot |-> "a",
                arg |-> [last.arg EXCEPT !.output = into_samples(last.arg.compressor)]]
    /\ UNCHANGED <<summary, buffer, failure, moved, stream>>

NextCompressor ==
    \/ \E g \in 1..MaxG, delta \in 0..MaxDelta : CompressorPush(g, delta)
    \/ CompressorIntoSamples
SpecCompressor == InitCompressor /\ [][NextCompressor]_vars

\* insert_one on a Summary constructed with any max_expected_error, in or
\* outside (0, 1)
InitAnyEpsilon ==
    /\ \E e \in Epsilons \cup OutOfRangeEpsilons :
          summary = [s \in Slots |-> Summary_new(e)]
    /\ buffer = <<>>
    /\ failure = "none"
    /\ moved = {}
    /\ stream = [s \in Slots |-> EmptyStream]
    /\ last = [op |-> "new", slot |-> "a", arg |-> 0]
SpecAnyEpsilon == InitAnyEpsilon /\ [][NextInsert]_vars

\* ----------------------------------------------------------- type sanity
TypeOK ==
    /\ failure \in {"none", "IncompatibleEpsilon", "DebugAssertion", "InvalidQuantile"}
    /\ moved \subseteq Slots
    /\ \A s \in Slots : summary[s].len \in 0..(Max(Max(MaxLen, MaxLongLen + MaxShortLen), Max(MaxInsertLen, MaxMergeLen)) + 1)

\* ------------------------------------------------- what the claims speak of
RECURSIVE SumG(_)
SumG(samples) == IF samples = <<>> THEN 0 ELSE Head(samples).g + SumG(Tail(samples))

Sorted(samples) ==
    \A i \in 1..(Len(samples) - 1) : samples[i].value <= samples[i + 1].value

\* how many values of the stream are < v, and <= v
CountLess(bag, v) == LET below == {u \in Values : u < v} IN
    IF below = {} THEN 0
    ELSE LET RECURSIVE Sum(_)
             Sum(set) == IF set = {} THEN 0
                         ELSE LET u == CHOOSE w \in set : TRUE IN bag[u] + Sum(set \ {u})
         IN Sum(below)
CountLeq(bag, v) == CountLess(bag, v) + bag[v]
StreamLen(bag) == CountLeq(bag, MaxValue)

\* the distance between rank r and the nearest position v holds in the sorted
\* stream (its ranks are CountLess + 1 .. CountLeq); a value that is not in the
\* stream is further away than any rank
RankDist(bag, v, r) ==
    IF bag[v] = 0 THEN StreamLen(bag) + 1
    ELSE IF r < CountLess(bag, v) + 1 THEN CountLess(bag, v) + 1 - r
    ELSE IF r > CountLeq(bag, v) THEN r - CountLeq(bag, v)
    ELSE 0

StreamMin(bag) == CHOOSE v \in Values : bag[v] > 0 /\ \A u \in Values : bag[u] > 0 => v <= u
StreamMax(bag) == CHOOSE v \in Values : bag[v] > 0 /\ \A u \in Values : bag[u] > 0 => v >= u

\* floor(epsilon * len)
MaxRankError(self) ==
    Floor(self.max_expected_error[1] * self.len, self.max_expected_error[2])

\* the Summary objects that exist and whose last operation returned
Live == IF failure = "none" THEN Slots \ moved ELSE {}

\* insert_one on one Summary: every stream of up to MaxInsertLen values of
\* Values; and the first MaxPrefixLen values of AdversarialStream, which fill
\* the Summary beyond max_samples, followed by one value below or above all
\* of them
MaxPrefixLen == 1682
ExtremeValues == {0, 1010}
InsertSmall(v) ==
    /\ summary["a"].len = StreamLen(stream["a"])
    /\ InsertOnly(v)
InsertPrefix ==
    /\ StreamLen(stream["a"]) = 0
    /\ summary["a"].len < MaxPrefixLen
    /\ last.op = "insert_one" => last.arg \notin ExtremeValues
    /\ InsertAdversarial
InsertExtreme(v) ==
    /\ failure = "none"
    /\ StreamLen(stream["a"]) = 0
    /\ last.op = "insert_one" /\ last.arg \notin ExtremeValues
    /\ last' = [op |-> "insert_one", slot |-> "a", arg |-> v]
    /\ \/ \* release build, or the debug assertions hold
          /\ summary' = [summary EXCEPT !["a"] = insert_one(@, v)]
          /\ UNCHANGED <<buffer, failure, moved, stream>>
       \/ \* debug build: a debug_assert_eq! panics after len was incremented
          /\ ~debug_asserts_hold(summary["a"].samples, v)
          /\ summary' = [summary EXCEPT !["a"].len = @ + 1]
          /\ failure' = "DebugAssertion"
          /\ UNCHANGED <<buffer, moved, stream>>
NextInsertSteps ==
    \/ \E v \in Values : InsertSmall(v)
    \/ InsertPrefix
    \/ \E v \in ExtremeValues : InsertExtreme(v)
SpecInsertSteps == Init /\ [][NextInsertSteps]_vars

\* ------------------------------------------- merge_sorted_samples, by step
\* the loop of merge_sorted_samples at one position: the two cursors, the
\* compressor, and (ghost) the samples pushed so far with the side they came
\* from
SweepState(self_input, other_input, compressor, pushed) ==
    [self_input |-> self_input, other_input |-> other_input,
     compressor |-> compressor, pushed |-> pushed]
FromSide(side, samples) ==
    [k \in 1..Len(samples) |-> [sample |-> samples[k], from |-> side]]

\* one iteration of the loop that pops self when the values are equal
sweep_step_ties_pop_self(sweep) ==
    LET self_peeked == peek(sweep.self_input)[1]
        other_peeked == peek(sweep.other_input)[1]
    IN
    IF self_peeked.value <= other_peeked.value
    THEN LET new_sample == [self_peeked EXCEPT
                               !.delta = @ + aditional_delta(sweep.other_input)]
         IN SweepState(pop_front(sweep.self_input), sweep.other_input,
                       push(sweep.compressor, new_sample),
                       Append(sweep.pushed, [sample |-> new_sample, from |-> "self"]))
    ELSE LET new_sample == [other_peeked EXCEPT
                               !.delta = @ + aditional_delta(sweep.self_input)]
         IN SweepState(sweep.self_input, pop_front(sweep.other_input),
                       push(sweep.compressor, new_sample),
                       Append(sweep.pushed, [sample |-> new_sample, from |-> "other"]))

\* one iteration of the loop with a sample to peek at on both sides
sweep_step(sweep) ==
    LET self_peeked == peek(sweep.self_input)[1]
        other_peeked == peek(sweep.other_input)[1]
    IN
    IF self_peeked.value < other_peeked.value
    THEN LET new_sample == [self_peeked EXCEPT
                               !.delta = @ + aditional_delta(sweep.other_input)]
         IN SweepState(pop_front(sweep.self_input), sweep.other_input,
                       push(sweep.compressor, new_sample),
                       Append(sweep.pushed, [sample |-> new_sample, from |-> "self"]))
    ELSE LET new_sample == [other_peeked EXCEPT
                               !.delta = @ + aditional_delta(sweep.self_input)]
         IN SweepState(sweep.self_input, pop_front(sweep.other_input),
                       push(sweep.compressor, new_sample),
                       Append(sweep.pushed, [sample |-> new_sample, from |-> "other"]))

\* the last iteration: one side has nothing to peek at, the other is drained
sweep_end(sweep) ==
    IF peek(sweep.self_input) = None
    THEN SweepState(sweep.self_input,
                    [sweep.other_input EXCEPT !.samples = <<>>],
                    push_remaining_to(sweep.other_input, sweep.compressor),
                    sweep.pushed \o FromSide("other", sweep.other_input.samples))
    ELSE SweepState([sweep.self_input EXCEPT !.samples = <<>>],
                    sweep.other_input,
                    push_remaining_to(sweep.self_input, sweep.compressor),
                    sweep.pushed \o FromSide("self", sweep.self_input.samples))

\* two Summary objects built by insert_one from up to MaxSweepLen values, then
\* summary[x].merge(summary[y]) one iteration of its loop at a time
MaxSweepLen == 6
Sweeping == last.op \in {"merge_begin", "merge_step"}

SweepInsert(s, v) ==
    /\ failure = "none"
    /\ moved = {}
    /\ Total < MaxSweepLen
    /\ InsertOneStep(s, v)

\* merge and merge_sorted_samples up to the loop
SweepBegin(x, y) ==
    /\ failure = "none"
    /\ moved = {}
    /\ x # y
    /\ moved' = {y}
    /\ IF merge_accepts(summary[x], summary[y])
       THEN /\ summary' = [summary EXCEPT ![x].len = @ + summary[y].len]
            /\ stream' = [stream EXCEPT ![x] = AddBag(@, stream[y]),
                                        ![y] = EmptyStream]
            /\ last' = [op |-> "merge_begin", slot |-> x,
                        arg |-> [self |-> summary[x], other |-> summary[y],
                                 sweep |-> SweepState(
                                     IncomingMergeState_new(summary[x].samples),
                                     IncomingMergeState_new(summary[y].samples),
                                     SamplesCompressor_new(max_g_delta(summary'[x])),
                                     <<>>)]]
            /\ UNCHANGED <<buffer, failure>>
       ELSE /\ failure' = "IncompatibleEpsilon"
            /\ last' = [op |-> "merge", slot |-> x, arg |-> summary[y].len]
            /\ UNCHANGED <<summary, buffer, stream>>

\* one iteration of the loop; the last one stores compressor.into_samples()
SweepStep ==
    /\ Sweeping
    /\ LET sweep == last.arg.sweep IN
       IF peek(sweep.self_input) = None \/ peek(sweep.other_input) = None
       THEN /\ last' = [last EXCEPT !.op = "merge_end", !.arg.sweep = sweep_end(sweep)]
            /\ summary' = [summary EXCEPT ![last.slot].samples =
                              into_samples(sweep_end(sweep).compressor)]
       ELSE /\ last' = [last EXCEPT !.op = "merge_step", !.arg.sweep = sweep_step(sweep)]
            /\ UNCHANGED summary
    /\ UNCHANGED <<buffer, failure, moved, stream>>

NextSweep ==
    \/ \E s \in Slots, v \in Values : SweepInsert(s, v)
    \/ \E x \in Slots, y \in Slots : SweepBegin(x, y)
    \/ SweepStep
SpecSweep == Init /\ [][NextSweep]_vars

\* ------------------------------------------------------------------ claims

\* C1: after any sequence of insert_one calls, for every rank r in 1..len,
\* query_with_error(r/len) returns a value of the stream whose rank differs
\* from r by at most floor(epsilon * len).
C1_RankErrorWithinEpsilon ==
    \A s \in Live : \A r \in 1..summary[s].len :
        LET answer == query_with_error(summary[s], rank_to_quantile(r, summary[s].len)) IN
        /\ answer # None
        /\ RankDist(stream[s], answer[1].value, r) <= MaxRankError(summary[s])

\* C2: after every public mutation the sum of g over the stored samples
\* equals len, the number of values inserted.
C2_SumOfGIsLen ==
    \A s \in Live :
        /\ SumG(summary[s].samples) = summary[s].len
        /\ summary[s].len = StreamLen(stream[s])

\* a merge of two non-empty Summary objects whose compression folded samples
C2_Witness ==
    /\ failure = "none"
    /\ last.op = "merge" /\ last.arg > 0
    /\ summary[last.slot].len > last.arg
    /\ Len(summary[last.slot].samples) < summary[last.slot].len
    /\ \E i \in 1..Len(summary[last.slot].samples) : summary[last.slot].samples[i].g > 1

\* C3: after every public mutation the stored samples are sorted
\* non-decreasing by value.
C3_SamplesSorted == \A s \in Live : Sorted(summary[s].samples)

\* an insert_one whose value became the first or the last sample without a
\* sample being added (the extreme sample was overwritten in place)
C3_Witness ==
    /\ failure = "none"
    /\ last.op = "insert_one"
    /\ LET samples == summary[last.slot].samples IN
       /\ Len(samples) >= 3
       /\ Len(samples) < summary[last.slot].len
       /\ \/ samples[1].value = last.arg /\ samples[2].value > last.arg /\ samples[2].g > 1
          \/ /\ samples[Len(samples)].value = last.arg
             /\ samples[Len(samples) - 1].value < last.arg
             /\ samples[Len(samples)].g > 1

\* C4: after every public mutation of a non-empty Summary the first and the
\* last stored sample have delta = 0.
C4_ExtremesHaveDeltaZero ==
    \A s \in Live :
        summary[s].samples # <<>> =>
            /\ summary[s].samples[1].delta = 0
            /\ summary[s].samples[Len(summary[s].samples)].delta = 0

\* a merge that left a sample with delta > 0 between the extremes
C4_Witness ==
    /\ failure = "none"
    /\ last.op = "merge" /\ last.arg > 0
    /\ \E i \in 2..(Len(summary[last.slot].samples) - 1) :
          summary[last.slot].samples[i].delta > 0

C6_QueryExtremes ==
    \A s \in Live :
        summary[s].len > 0 =>
            /\ query(summary[s], <<0, 1>>) = Some(StreamMin(stream[s]))
            /\ query(summary[s], <<1, 1>>) = Some(StreamMax(stream[s]))

\* C7: query and query_with_error return None if and only if the Summary is
\* empty: None for every q in [0, 1] when len = 0, a stored value otherwise.
C7_NoneIffEmpty ==
    \A s \in Live : \A q \in Quantiles :
        LET value == query(summary[s], q)
            answer == query_with_error(summary[s], q)
        IN
        /\ quantile_in_range(q)
        /\ summary[s].len = 0 => value = None /\ answer = None
        /\ summary[s].len > 0 =>
               /\ answer # None
               /\ value # None
               /\ \E i \in 1..Len(summary[s].samples) :
                      summary[s].samples[i].value = value[1]

\* an empty Summary next to one that received a merge of values
C7_Witness ==
    /\ failure = "none" /\ moved = {}
    /\ \E s \in Slots :
          /\ summary[s].len = 0 /\ query(summary[s], <<1, 2>>) = None
          /\ summary[Other(s)].len > 1
          /\ Len(summary[Other(s)].samples) = 1
          /\ query(summary[Other(s)], <<1, 2>>) # None

\* C8: after A.merge(B) of two Summary objects built with the same epsilon by
\* insert_one, every rank r in 1..N1+N2 is answered by a value whose rank in
\* the union of both streams differs from r by at most 2 * epsilon * (N1 + N2).
C8_MergeErrorWithinTwoEpsilon ==
    (/\ failure = "none" /\ last.op = "merge"
     /\ summary[last.slot].max_expected_error
            = summary[Other(last.slot)].max_expected_error)
    => LET merged == summary[last.slot] IN
       \A r \in 1..merged.len :
           LET answer == query(merged, rank_to_quantile(r, merged.len)) IN
           /\ answer # None
           /\ RankDist(stream[last.slot], answer[1], r) * merged.max_expected_error[2]
                  <= 2 * merged.max_expected_error[1] * merged.len

\* a merge of two non-empty Summary objects that answers some rank inexactly
C8_Witness ==
    /\ failure = "none" /\ last.op = "merge" /\ last.arg > 1
    /\ summary[last.slot].len > last.arg + 1
    /\ summary[last.slot].max_expected_error
           = summary[Other(last.slot)].max_expected_error
    /\ 2 * summary[last.slot].max_expected_error[1] < summary[last.slot].max_expected_error[2]
    /\ \E r \in 1..summary[last.slot].len :
          RankDist(stream[last.slot],
                   query(summary[last.slot],
                         rank_to_quantile(r, summary[last.slot].len))[1], r) > 0

\* C9: merge leaves the receiver with len = N1 + N2, and
\* merge_sorted_samples(iter, other_len) adds exactly other_len to len.
C9_MergeAddsLen ==
    [][/\ (last'.op = "merge" /\ failure' = "none") =>
             summary'[last'.slot].len
                 = summary[last'.slot].len + summary[Other(last'.slot)].len
       /\ last'.op = "into_summary" =>
             summary'[WriterSlot].len = summary[WriterSlot].len + Len(buffer)
       /\ (last'.op = "writer_insert_one" /\ buffer' = <<>>) =>
             summary'[WriterSlot].len = summary[WriterSlot].len + Len(buffer) + 1
      ]_vars

\* a merge of two non-empty Summary objects
C9_Witness ==
    /\ failure = "none" /\ last.op = "merge" /\ last.arg > 0
    /\ summary[last.slot].len > last.arg
    /\ summary[last.slot].len = StreamLen(stream[last.slot])

\* C10: merge fails whenever other's epsilon is greater than the receiver's
\* and is accepted otherwise; on failure the receiver is not modified.
C10_MergeChecksEpsilon ==
    [][last'.op = "merge" =>
          LET self == summary[last'.slot]
              other == summary[Other(last'.slot)]
              greater == other.max_expected_error[1] * self.max_expected_error[2]
                             > self.max_expected_error[1] * other.max_expected_error[2]
          IN /\ failure' = (IF greater THEN "IncompatibleEpsilon" ELSE "none")
             /\ greater => summary'[last'.slot] = self
      ]_vars

\* a refused merge into a Summary that holds samples
C10_Witness ==
    /\ failure = "IncompatibleEpsilon" /\ last.op = "merge" /\ last.arg > 0
    /\ Len(summary[last.slot].samples) > 1

\* C11: no Summary with an epsilon outside the open interval (0, 1) exists
\* and holds a value: its construction failed, so it was never mutated.
C11_InvalidEpsilonFails ==
    \A s \in Slots :
        summary[s].len > 0 =>
            /\ summary[s].max_expected_error[1] > 0
            /\ summary[s].max_expected_error[1] < summary[s].max_expected_error[2]

\* C12: a query with q < 0 or q > 1 fails with InvalidQuantile and returns no
\* value; a query with 0 <= q <= 1 never fails, and returns a value when the
\* Summary is not empty.
C12_QuantileOutOfRangeFails ==
    last.op = "query_with_error" =>
        LET q == last.arg.quantile IN
        /\ (q[1] < 0 \/ q[1] > q[2]) =>
               failure = "InvalidQuantile" /\ last.arg.answer = None
        /\ (q[1] >= 0 /\ q[1] <= q[2]) =>
               /\ failure = "none"
               /\ summary["a"].len > 0 => last.arg.answer # None

\* a query above 1 that failed on a Summary holding several samples
C12_Witness ==
    /\ last.op = "query_with_error"
    /\ failure = "InvalidQuantile"
    /\ last.arg.quantile = <<101, 100>>
    /\ Len(summary["a"].samples) > 1

\* C13: for N >= 1 and q in [0, 1], quantile_to_rank(q, N) = max(1, ceil(q*N)),
\* so 1 <= rank <= N; the rank is non-decreasing in q; and
\* quantile_to_rank(r/N, N) = r for every r in 1..N.
C13_QuantileToRank ==
    last.op = "quantile_to_rank" =>
        LET q == last.arg.quantile
            N == last.arg.num
            rank == last.arg.rank
        IN
        /\ rank = Max(1, Ceil(q[1] * N, q[2]))
        /\ 1 <= rank /\ rank <= N
        /\ \A d \in {q[2], N} : \A n \in 0..d :
               RatLeq(q, <<n, d>>) => rank <= quantile_to_rank(<<n, d>>, N)
        /\ (q[2] = N /\ q[1] >= 1) => rank = q[1]

\* C14: for every Summary reachable by insert_one and merge, compressing twice
\* leaves the same samples (value, g, delta) and the same query answers as
\* compressing once.
C14_CompressIdempotent ==
    \A s \in Live :
        LET once == compress(summary[s])
            twice == compress(once)
        IN
        /\ twice.samples = once.samples
        /\ \A quantile \in Quantiles :
               query_with_error(twice, quantile) = query_with_error(once, quantile)

\* C15: the samples a SamplesCompressor returns for an ascending input are an
\* ascending subsequence of the input, each with the delta it had on input,
\* and the sum of their g is the sum of g over the input.
C15_CompressorKeepsOrderSumAndDelta ==
    last.op = "into_samples" =>
        LET input == last.arg.input
            output == last.arg.output
        IN
        /\ \A i \in 1..(Len(output) - 1) : output[i].value < output[i + 1].value
        /\ \A i \in 1..Len(output) :
               /\ output[i].value \in 1..Len(input)
               /\ output[i].delta = input[output[i].value].delta
        /\ SumG(output) = SumG(input)

\* a pass that dropped samples and kept one with delta > 0 and g > 1
C15_Witness ==
    /\ last.op = "into_samples"
    /\ Len(last.arg.input) = MaxPushed
    /\ Len(last.arg.output) < Len(last.arg.input)
    /\ \E i \in 1..Len(last.arg.output) :
          last.arg.output[i].delta > 0 /\ last.arg.output[i].g > 1

\* C16 as stated: the first pushed sample is the first sample returned and
\* the last pushed sample is the last sample returned, both with value, g and
\* delta unchanged.
C16_Original ==
    (last.op = "into_samples" /\ last.arg.input # <<>>) =>
        LET input == last.arg.input
            output == last.arg.output
        IN
        /\ output # <<>>
        /\ output[1] = input[1]
        /\ output[Len(output)] = input[Len(input)]

\* C16 amended: the first pushed sample is returned first, unchanged; the last
\* pushed sample is returned last with its value and delta, and with the sum
\* of g of the pushed samples that follow the sample returned before it.
C16_Amended ==
    (last.op = "into_samples" /\ last.arg.input # <<>>) =>
        LET input == last.arg.input
            output == last.arg.output
            n == Len(input)
            m == Len(output)
        IN
        /\ m >= 1
        /\ output[1] = input[1]
        /\ output[m].value = input[n].value
        /\ output[m].delta = input[n].delta
        /\ m = 1 => n = 1
        /\ m > 1 => output[m].g = SumG(SubSeq(input, output[m - 1].value + 1, n))
        /\ n < 3 => output[m].g = input[n].g

\* a pass whose last returned sample absorbed the block before it
C16_Witness ==
    /\ last.op = "into_samples"
    /\ Len(last.arg.input) >= 3
    /\ Len(last.arg.output) >= 2
    /\ last.arg.output[Len(last.arg.output)].g > last.arg.input[Len(last.arg.input)].g

\* C17: push absorbs the tail t into the new sample s (s.g += t.g) exactly
\* when t.g + s.g + s.delta <= cap, and commits t unchanged otherwise; when
\* every pushed sample has g + delta <= cap, every returned sample other than
\* the first has g + delta <= cap.
C17_CompressorRespectsCap ==
    [][/\ (last'.op = "push" /\ last.arg.compressor.block_tail # None) =>
             LET c == last.arg.compressor
                 after == last'.arg.compressor
                 t == c.block_tail[1]
                 s == last'.arg.input[Len(last'.arg.input)]
             IN
             IF t.g + s.g + s.delta <= c.max_g_delta
             THEN /\ after.block_tail = Some(Sample(s.value, s.g + t.g, s.delta))
                  /\ after.compressed_samples = c.compressed_samples
             ELSE /\ after.block_tail = Some(s)
                  /\ after.compressed_samples = Append(c.compressed_samples, t)
       /\ (/\ last'.op = "into_samples"
           /\ \A i \in 1..Len(last.arg.input) :
                  last.arg.input[i].g + last.arg.input[i].delta
                      <= last.arg.compressor.max_g_delta) =>
             \A i \in 2..Len(last'.arg.output) :
                 last'.arg.output[i].g + last'.arg.output[i].delta
                     <= last.arg.compressor.max_g_delta
      ]_vars

\* a pass over samples within the cap that returned a block filling the cap
C17_Witness ==
    /\ last.op = "into_samples"
    /\ \A i \in 1..Len(last.arg.input) :
          last.arg.input[i].g + last.arg.input[i].delta <= last.arg.compressor.max_g_delta
    /\ Len(last.arg.output) < Len(last.arg.input)
    /\ \E i \in 2..Len(last.arg.output) :
          /\ last.arg.output[i].delta > 0
          /\ last.arg.output[i].g + last.arg.output[i].delta
                 = last.arg.compressor.max_g_delta

\* C18: for fewer than 3 pushed samples into_samples returns the input, for
\* every capacity, and compress() leaves a Summary that stores them unchanged.
C18_FewSamplesNotCompressed ==
    (last.op = "into_samples" /\ Len(last.arg.input) < 3) =>
        /\ last.arg.output = last.arg.input
        /\ \A e \in Epsilons :
               LET self == [Summary_new(e) EXCEPT !.samples = last.arg.input,
                                                  !.len = SumG(last.arg.input)]
               IN compress(self) = self

\* two samples returned as they were although their g and delta fit the cap
C18_Witness ==
    /\ last.op = "into_samples"
    /\ Len(last.arg.input) = 2
    /\ last.arg.input[1].g + last.arg.input[2].g + last.arg.input[2].delta
           <= last.arg.compressor.max_g_delta
    /\ last.arg.output = last.arg.input

\* C19: an insert_one of a value that was inserted before stores no new
\* sample: the number of stored samples does not grow and the g of one
\* sample is incremented.
C19_RepeatedValueAddsNoSample ==
    [][\A s \in Slots :
          (/\ last'.op = "insert_one"
           /\ last'.slot = s
           /\ failure' = "none"
           /\ stream[s][last'.arg] > 0) =>
              /\ Len(summary'[s].samples) <= Len(summary[s].samples)
              /\ SumG(summary'[s].samples) = SumG(summary[s].samples) + 1
      ]_vars

\* C20: a merge into a Summary that holds no samples leaves it with the len
\* of other and with the samples a SamplesCompressor of cap
\* floor(2 * epsilon * other.len) returns for the samples of other; every
\* sample it keeps has the delta it had in other.
C20_MergeIntoEmpty ==
    [][\A x \in Slots :
          (/\ last'.op = "merge"
           /\ last'.slot = x
           /\ failure' = "none"
           /\ summary[x].samples = <<>>) =>
              LET other == summary[Other(x)]
                  epsilon == summary[x].max_expected_error
                  cap == Floor(2 * epsilon[1] * other.len, epsilon[2])
                  merged == summary'[x]
              IN
              /\ merged.len = other.len
              /\ merged.samples = into_samples(push_all(SamplesCompressor_new(cap), other.samples))
              /\ \A i \in 1..Len(merged.samples) :
                     \E j \in 1..Len(other.samples) :
                         /\ other.samples[j].value = merged.samples[i].value
                         /\ other.samples[j].delta = merged.samples[i].delta
      ]_vars

\* a Summary was merged into a Summary that held nothing and left it three or
\* more samples, one with delta > 0 and one with g > 1
C20_Witness ==
    /\ last.op = "merge"
    /\ failure = "none"
    /\ summary[last.slot].len = last.arg
    /\ Len(summary[last.slot].samples) >= 3
    /\ \E i \in 1..Len(summary[last.slot].samples) :
          summary[last.slot].samples[i].delta > 0
    /\ \E i \in 2..Len(summary[last.slot].samples) :
          summary[last.slot].samples[i].g > 1

\* C21: a merge of a Summary with len 0 and no samples leaves the receiver's
\* len, its samples (value, g, delta) and its query answers as they were.
C21_MergeOfEmptyIsNoOp ==
    [][\A x \in Slots :
          (/\ last'.op = "merge"
           /\ last'.slot = x
           /\ failure' = "none"
           /\ summary[Other(x)].len = 0
           /\ summary[Other(x)].samples = <<>>) =>
              /\ summary'[x].len = summary[x].len
              /\ summary'[x].samples = summary[x].samples
              /\ \A quantile \in Quantiles :
                     query_with_error(summary'[x], quantile)
                         = query_with_error(summary[x], quantile)
      ]_vars

\* C22: when insert_one has returned, the Summary stores at most
\* 5 * ceil(1 / epsilon) samples.
C22_SamplesWithinSafetyBound ==
    (last.op = "insert_one" /\ failure = "none") =>
        LET self == summary[last.slot]
            epsilon == self.max_expected_error
        IN Len(self.samples) <= 5 * Ceil(epsilon[2], epsilon[1])


\* C23: when a SummaryWriter (extend, then into_summary) and Summary::insert_one
\* were given the same n values, both Summary objects have len = n and both
\* answer every rank r in 1..n with a value of the stream whose rank is
\* within epsilon * n of r.
C23_BatchAndStreamAgree ==
    (failure = "none" /\ buffer = <<>>) =>
        LET n == StreamLen(stream["b"]) IN
        \A s \in Slots :
            /\ summary[s].len = n
            /\ \A r \in 1..n :
                  LET answer == query_with_error(summary[s], rank_to_quantile(r, n)) IN
                  /\ answer # None
                  /\ RankDist(stream[s], answer[1].value, r) <= MaxRankError(summary[s])


\* C24: a SummaryWriter loses no value and counts none twice: insert_one
\* keeps the value in the buffer, and flushes exactly when the buffer becomes
\* full; into_summary flushes the rest (nothing when nothing is pending); a
\* flush adds the number of buffered values to len and to the sum of g.
C24_WriterCountsEveryValue ==
    [][LET before == summary[WriterSlot]
           after == summary'[WriterSlot]
       IN
       /\ last'.op = "writer_insert_one" =>
             IF Len(buffer) + 1 = BufferCapacity
             THEN /\ buffer' = <<>>
                  /\ after.len = before.len + BufferCapacity
                  /\ SumG(after.samples) = after.len
                  /\ stream'[WriterSlot] = AddValue(AddSeq(stream[WriterSlot], buffer), last'.arg)
             ELSE /\ buffer' = Append(buffer, last'.arg)
                  /\ summary' = summary
                  /\ Len(buffer') < BufferCapacity
       /\ last'.op = "into_summary" =>
             /\ buffer' = <<>>
             /\ after.len = before.len + Len(buffer)
             /\ SumG(after.samples) = after.len
             /\ buffer = <<>> => summary' = summary
      ]_vars

\* a Summary of one value was wrapped, the buffer was filled and flushed
\* twice, and into_summary found nothing pending
C24_Witness ==
    /\ last.op = "into_summary" /\ last.arg = 0
    /\ failure = "none"
    /\ summary[WriterSlot].len = 2 * BufferCapacity + 1



\* C26: with epsilon = 0.2, after insert_one of 8, 6, 0, 4, 3, 9, 2, 5, 1, 7
\* and compress() the samples are (0,1,0), (4,4,0), (6,2,0), (9,3,0), and
\* query_with_error for the ranks 1..10 answers 0,0,0,4,4,4,6,6,9,9 with the
\* rank errors 0,1,2,1,0,1,0,1,1,0 (at most 2).
C26_InsertTestAnswers ==
    LET self == summary["a"]
        values == <<0, 0, 0, 4, 4, 4, 6, 6, 9, 9>>
        errors == <<0, 1, 2, 1, 0, 1, 0, 1, 1, 0>>
        all_inserted == self.max_expected_error = <<1, 5>> /\ self.len = Len(TestValues)
    IN
    /\ (all_inserted /\ last.op = "compress") =>
          /\ self.samples = <<Sample(0, 1, 0), Sample(4, 4, 0), Sample(6, 2, 0), Sample(9, 3, 0)>>
          /\ \A r \in 1..10 :
                query_with_error(self, rank_to_quantile(r, 10))
                    = Some([value |-> values[r], rank_error |-> errors[r]])
    /\ (all_inserted /\ last.op = "query_with_error" /\ last.arg.compressed) =>
          /\ last.arg.answer = Some([value |-> values[last.arg.rank],
                                     rank_error |-> errors[last.arg.rank]])
          /\ last.arg.answer[1].rank_error <= 2

\* rank 3 was asked of the compressed Summary of the ten values: two samples
\* tie and the first one, 0, is returned with rank error 2
C26_Witness ==
    /\ summary["a"].max_expected_error = <<1, 5>>
    /\ summary["a"].len = Len(TestValues)
    /\ last.op = "query_with_error"
    /\ last.arg.compressed
    /\ last.arg.rank = 3
    /\ last.arg.answer = Some([value |-> 0, rank_error |-> 2])



\* C25: a SummaryWriter with epsilon = 0.2 and buffer capacity 3, given the
\* first 3, 6, 9 or 10 values of 8, 6, 0, 4, 3, 9, 2, 5, 1, 7 and turned into
\* a Summary, stores the samples of the test writer; with 9 values the
\* sample of value 2 has delta = 1.
C25_WriterTestSamples ==
    LET self == summary["a"]
        T(triples) == [i \in 1..Len(triples) |->
                          Sample(triples[i][1], triples[i][2], triples[i][3])]
    IN
    (self.max_expected_error = <<1, 5>> /\ last.op = "into_summary") =>
        /\ self.len = 3 => self.samples = T(<< <<0,1,0>>, <<6,1,0>>, <<8,1,0>> >>)
        /\ self.len = 6 => self.samples = T(<< <<0,1,0>>, <<4,2,0>>, <<8,2,0>>, <<9,1,0>> >>)
        /\ self.len = 9 => self.samples =
               T(<< <<0,1,0>>, <<2,2,1>>, <<4,2,0>>, <<8,3,0>>, <<9,1,0>> >>)
        /\ self.len = 10 => self.samples = T(<< <<0,1,0>>, <<4,4,0>>, <<8,4,0>>, <<9,1,0>> >>)



\* C27: band(delta, p) is defined without overflow for 0 <= delta <= p:
\* band(0, 0) = 0, band(0, p) = floor(log2 p) + 1 for p > 0, band(p, p) = 0
\* for p > 0, otherwise the smallest a >= 0 with
\* delta > p - 2^a - (p mod 2^a); for p in 0..30 it is the value of the
\* table of the test bands.
C27_BandTable ==
    (last.op = "band" /\ failure = "none") =>
        LET delta == last.arg.delta
            p == last.arg.p
            band == last.arg.band
            lower_bound(a) == p - 2 ^ a - (p % (2 ^ a))
        IN
        /\ band # Underflow /\ band >= 0
        /\ (delta = 0 /\ p = 0) => band = 0
        /\ (delta = 0 /\ p > 0) => (2 ^ (band - 1) <= p /\ p < 2 ^ band)
        /\ (delta = p /\ p > 0) => band = 0
        /\ (0 < delta /\ delta < p) =>
              /\ delta > lower_bound(band)
              /\ \A a \in 0..(band - 1) : delta <= lower_bound(a)
        /\ p < Len(BandTable) => band = BandTable[p + 1][delta + 1]

\* band(8, 22) = 4 was computed: 8 is the upper end of the band (0, 8]
C27_Witness ==
    /\ last.op = "band"
    /\ failure = "none"
    /\ last.arg = [delta |-> 8, p |-> 22, band |-> 4]



\* how many of the values given to the baseline Summary are <= v
GkCountLeq(v) ==
    Cardinality({u \in GkValues : u <= v /\ stream["a"][u] > 0})

\* C28: for the baseline Summary built by insert_one from N distinct values,
\* query(r / N) returns, for every rank r in 1..N, a value of the stream whose
\* rank g has |g - r| / N <= epsilon, and query(0) and query(1) return the
\* minimum and the maximum of the stream.
C28_BaselineRankError ==
    LET self == summary["a"]
        N == self.len
        given == {u \in GkValues : stream["a"][u] > 0}
    IN
    (failure = "none" /\ last.op = "insert_one") =>
        /\ \A r \in 1..N :
              LET queried == gk_query(self, rank_to_quantile(r, N))[1]
                  got_rank == GkCountLeq(queried)
                  distance == IF got_rank >= r THEN got_rank - r ELSE r - got_rank
              IN
              /\ queried \in given
              /\ distance * self.epsilon[2] <= self.epsilon[1] * N
        /\ gk_query(self, <<0, 1>>) = Some(CHOOSE v \in given : \A u \in given : v <= u)
        /\ gk_query(self, <<1, 1>>) = Some(CHOOSE v \in given : \A u \in given : v >= u)



\* how many of the values counted by bag are <= v, and the value of rank r
RECURSIVE GkBagCountLeq(_, _)
GkBagCountLeq(bag, v) == IF v = 0 THEN 0 ELSE bag[v] + GkBagCountLeq(bag, v - 1)
GkRanked(bag, r) ==
    CHOOSE v \in GkValues : GkBagCountLeq(bag, v - 1) < r /\ r <= GkBagCountLeq(bag, v)

\* C29: insert_without_compression stores the value as a new sample with
\* g = 1 at its sorted position, with delta = 0 for a new minimum or a new
\* maximum (value >= the last sample) and delta = floor(2 * epsilon * len),
\* len counted after the increment, otherwise; and when every stored sample
\* is exact, query(r / len) returns the value of rank r for every r in 1..len.
C29_InsertWithoutCompression ==
    [][last'.op = "insert_without_compression" =>
         LET before == summary["a"]
             after == summary'["a"]
             value == last'.arg
             extreme == \/ before.samples = <<>>
                        \/ value < before.samples[1].value
                        \/ value >= before.samples[Len(before.samples)].value
             delta == IF extreme THEN 0
                      ELSE Floor(2 * after.epsilon[1] * after.len, after.epsilon[2])
             ranked(r) == GkRanked(stream'["a"], r)
         IN
         /\ after.len = before.len + 1
         /\ Sorted(after.samples)
         /\ \E i \in 1..Len(after.samples) :
               /\ after.samples[i] = [value |-> value, g |-> 1, delta |-> delta, band |-> 0]
               /\ before.samples = SubSeq(after.samples, 1, i - 1)
                                     \o SubSeq(after.samples, i + 1, Len(after.samples))
         /\ gk_all_exact(after.samples) =>
               \A r \in 1..after.len :
                   gk_query(after, rank_to_quantile(r, after.len)) = Some(ranked(r))
      ]_vars



\* the values counted by bag, in non-decreasing order
RECURSIVE SortedValues(_, _)
SortedValues(bag, v) ==
    IF v = 0 THEN <<>> ELSE SortedValues(bag, v - 1) \o [k \in 1..bag[v] |-> v]

\* the depth of a node: 1 for a leaf
RECURSIVE Depth(_)
Depth(node) == IF is_leaf(node) THEN 1 ELSE 1 + Depth(node.children[1])

\* C30: for any values inserted into a BTree by insert (try_insert) or
\* collected by from_iter, in any order and with duplicates, iter() yields
\* the inserted values in non-decreasing order, each as often as it was
\* inserted, and len() is the number of inserted values.
C30_BTreeIterSorted ==
    LET tree == summary["a"].tree IN
    failure = "none" =>
        /\ BTree_iter(tree) = SortedValues(stream["a"], MaxTreeValue)
        /\ tree.len = Len(SortedValues(stream["a"], MaxTreeValue))

\* the root was split twice (three levels) by the ascending prefix of
\* from_iter, and a smaller value was inserted after it
C30_Witness ==
    /\ last.op = "from_iter"
    /\ summary["a"].ascending = None
    /\ summary["a"].fast > 0
    /\ Depth(summary["a"].tree.root) = 3
    /\ stream["a"][1] > 0 /\ stream["a"][MaxTreeValue] > 0


\* ------------------------------------------------------------------- C31
\* v is below, equal to, above the target: v is an offset from the target
BelowTarget(v) == v[1] < 0 \/ (v[1] = 0 /\ v[2] < 0)
AboveTarget(v) == v[1] > 0 \/ (v[1] = 0 /\ v[2] > 0)
GenCount(P(_)) == Cardinality({k \in 1..Len(stream["a"]) : P(stream["a"][k])})
IsTarget(v) == v = <<0, 0>>

\* C31: when RandomGenerator(q, target, N, seed) has returned None it has
\* yielded exactly N values: quantile_to_rank(q, N) - 1 strictly below the
\* target, one equal to the target, N - quantile_to_rank(q, N) strictly above
\* it; before that it has yielded fewer than N values or is about to end.
C31_GeneratorCounts ==
    LET num == last.arg.num
        rank == quantile_to_rank(last.arg.quantile, num)
    IN
    /\ Len(stream["a"]) <= num
    /\ last.op = "collected" =>
          /\ Len(stream["a"]) = num
          /\ GenCount(BelowTarget) = rank - 1
          /\ GenCount(IsTarget) = 1
          /\ GenCount(AboveTarget) = num - rank

\* ------------------------------------------------------------------- C32
\* the rank of v in a stream of distinct values: how many values are <= v
TrueRank(bag, v) == Cardinality({u \in DOMAIN bag : bag[u] > 0 /\ u <= v})
\* min_rank_i: the sum of g over the samples up to i
MinRank(samples, i) == SumG(SubSeq(samples, 1, i))
Distance(a, b) == IF a >= b THEN a - b ELSE b - a

\* the true rank of every stored sample lies in [min_rank_i, min_rank_i + delta_i]
RanksInEnvelope(self, bag) ==
    \A i \in 1..Len(self.samples) :
        LET rank == TrueRank(bag, self.samples[i].value) IN
        /\ MinRank(self.samples, i) <= rank
        /\ rank <= MinRank(self.samples, i) + self.samples[i].delta

\* the rank error reported by query_with_error bounds the distance between
\* the target rank and the true rank of the returned value
ReportedErrorBounds(self, bag) ==
    \A r \in 1..self.len :
        LET answer == query_with_error(self, <<r, self.len>>)[1] IN
        Distance(TrueRank(bag, answer.value), quantile_to_rank(<<r, self.len>>, self.len))
            <= answer.rank_error

\* C32: for a stream of distinct values given by insert_one, with compress at
\* any time, the true rank of every stored sample lies in its envelope
\* [min_rank, min_rank + delta], and the rank error reported by
\* query_with_error is at least the actual rank error of the returned value.
C32_RanksInEnvelope ==
    failure = "none" =>
        /\ RanksInEnvelope(summary["a"], stream["a"])
        /\ ReportedErrorBounds(summary["a"], stream["a"])

\* ------------------------------------------------------------------- C33
\* an insert_one on summary["a"] that returned
InsertReturned == last'.op = "insert_one" /\ failure' = "none"
\* floor(2 * epsilon * len) with the len after the increment
CapAfter == LET epsilon == summary["a"].max_expected_error IN
    (2 * epsilon[1] * summary'["a"].len) \div epsilon[2]
\* the samples of a Summary like summary'["a"] after its compress()
Compressed(samples) == compress([summary'["a"] EXCEPT !.samples = samples]).samples
\* what insert_one leaves of the samples its insertion step produced
AfterInsertion(samples) ==
    IF Len(samples) > summary["a"].max_samples THEN Compressed(samples) ELSE samples

\* the samples of summary["a"] after the step C33 describes, for a value that
\* is neither a new minimum nor a new maximum
IntermediateStep(samples, value, cap) ==
    LET i == CHOOSE k \in 1..Len(samples) :
                 /\ samples[k].value > value
                 /\ \A j \in 1..(k - 1) : samples[j].value <= value
        r == samples[i]
    IN
    IF r.delta + r.g + 1 <= cap
    THEN [k \in 1..Len(samples) |->
             IF k = i THEN Sample(r.value, r.g + 1, r.delta) ELSE samples[k]]
    ELSE [k \in 1..(Len(samples) + 1) |->
             IF k < i THEN samples[k]
             ELSE IF k = i THEN Sample(value, 1, r.g + r.delta - 1)
             ELSE samples[k - 1]]
IsIntermediate(samples, value) ==
    /\ \E k \in 1..Len(samples) : samples[k].value > value
    /\ \E k \in 1..Len(samples) : samples[k].value <= value
    /\ samples[1].value <= value

\* C33 as stated: insert_one of a value that is neither a new minimum nor a
\* new maximum, r the leftmost sample with a greater value, cap =
\* floor(2 * epsilon * len) after the increment: when r.delta + r.g + 1 <= cap
\* r.g is incremented and no sample is added, otherwise (value, 1,
\* r.g + r.delta - 1) is inserted immediately left of r; no other sample is
\* modified.
C33_Original ==
    [][(InsertReturned /\ IsIntermediate(summary["a"].samples, last'.arg)) =>
          summary'["a"].samples
              = IntermediateStep(summary["a"].samples, last'.arg, CapAfter)]_vars

\* C33 amended: the samples are as C33 describes unless the insertion leaves
\* more than max_samples = 5 * ceil(1 / epsilon) samples; then insert_one
\* runs compress() on them before it returns.
C33_Amended ==
    [][(InsertReturned /\ IsIntermediate(summary["a"].samples, last'.arg)) =>
          summary'["a"].samples
              = AfterInsertion(IntermediateStep(summary["a"].samples, last'.arg, CapAfter))]_vars

\* an insert_one put a sample with delta > 0 between two stored samples
C33_Witness ==
    /\ last.op = "insert_one" /\ failure = "none"
    /\ \E i \in 2..(Len(summary["a"].samples) - 1) :
          /\ summary["a"].samples[i] = Sample(last.arg, 1, 1)
          /\ summary["a"].samples[i + 1].g = 2
          /\ summary["a"].len = SumG(summary["a"].samples)

\* ------------------------------------------------------------------- C34
IsMaximum(samples, value) ==
    /\ samples # <<>>
    /\ \A k \in 1..Len(samples) : samples[k].value <= value
\* insert_one ran no compress(): the insertion step left at most max_samples
NoCompressAfter(samples) == Len(samples) <= summary["a"].max_samples

\* C34: insert_one of a value greater than or equal to every stored value,
\* cap = floor(2 * epsilon * len) after the increment: when
\* previous_max.g + 1 <= cap the previous maximum gets the new value and g + 1
\* and no sample is added, otherwise the exact sample (value, 1, 0) is
\* appended; in both cases the last sample holds the new value with
\* delta = 0.
C34_MaximumBranch ==
    [][(InsertReturned /\ IsMaximum(summary["a"].samples, last'.arg)) =>
          LET before == summary["a"].samples
              after == summary'["a"].samples
              previous_max == before[Len(before)]
              value == last'.arg
          IN
          /\ after[Len(after)].value = value
          /\ after[Len(after)].delta = 0
          /\ IF previous_max.g + 1 <= CapAfter
             THEN /\ after[Len(after)].g = previous_max.g + 1
                  /\ Len(after) <= Len(before)
                  /\ NoCompressAfter(before) =>
                        after = [before EXCEPT ![Len(before)] =
                                    Sample(value, previous_max.g + 1, previous_max.delta)]
             ELSE /\ after[Len(after)] = Sample(value, 1, 0)
                  /\ NoCompressAfter(Append(before, previous_max)) =>
                        after = Append(before, Sample(value, 1, 0))]_vars

\* an insert_one appended a new maximum after a previous maximum with g >= 2,
\* which had absorbed an earlier maximum
C34_Witness ==
    /\ last.op = "insert_one" /\ failure = "none"
    /\ LET samples == summary["a"].samples IN
       /\ Len(samples) >= 3
       /\ samples[Len(samples)] = Sample(last.arg, 1, 0)
       /\ samples[Len(samples) - 1].g >= 2
       /\ samples[Len(samples) - 1].value < last.arg

\* ------------------------------------------------------------------- C35
IsMinimum(samples, value) == samples # <<>> /\ samples[1].value > value

\* the Minimum branch: the previous minimum is rolled into after_min when
\* rolls holds, and kept behind the new first sample otherwise
MinimumBranch(rolls) ==
    (InsertReturned /\ IsMinimum(summary["a"].samples, last'.arg)) =>
        LET before == summary["a"].samples
            after == summary'["a"].samples
            value == last'.arg
        IN
        /\ after[1] = Sample(value, 1, 0)
        /\ IF rolls
           THEN /\ Len(after) <= Len(before)
                /\ NoCompressAfter(before) =>
                      after = [before EXCEPT ![1] = Sample(value, 1, 0),
                                             ![2].g = @ + 1]
           ELSE NoCompressAfter(Append(before, before[1])) =>
                      after = <<Sample(value, 1, 0)>> \o before

RollsAsStated(before, cap) == Len(before) >= 2 /\ before[2].g + 1 <= cap
RollsWithDelta(before, cap) ==
    Len(before) >= 2 /\ before[2].delta + before[2].g + 1 <= cap

\* C35 as stated: insert_one of a value smaller than the current minimum
\* makes it the first sample with g = 1 and delta = 0; the previous minimum is
\* rolled into after_min (after_min.g + 1, no sample added) exactly when
\* after_min.g + 1 <= cap, otherwise (value, 1, 0) is inserted at the front
\* and the previous minimum is kept.
C35_Original ==
    [][MinimumBranch(RollsAsStated(summary["a"].samples, CapAfter))]_vars

\* C35 amended: the previous minimum is rolled into after_min exactly when
\* after_min exists and after_min.delta + after_min.g + 1 <= cap.
C35_Amended ==
    [][MinimumBranch(RollsWithDelta(summary["a"].samples, CapAfter))]_vars

\* an insert_one put a new minimum in front of the previous one because
\* after_min.delta + after_min.g + 1 > cap, although after_min.g + 1 <= cap
C35_Witness ==
    /\ last.op = "insert_one" /\ failure = "none"
    /\ LET samples == summary["a"].samples IN
       /\ Len(samples) >= 3
       /\ samples[1] = Sample(last.arg, 1, 0)
       /\ samples[2].value > last.arg
       /\ samples[3].delta > 0
       /\ samples[3].g + 1 <= max_g_delta(summary["a"])
       /\ summary["a"].len = StreamLen(stream["a"])

\* ------------------------------------------------------------------- C36
\* C36: no debug assertion of insert_one fails: whenever a value is given to
\* insert_one as a new minimum the first stored sample has g = 1 and
\* delta = 0, and whenever it is given as a new maximum the last stored sample
\* has delta = 0.
C36_DebugAssertionsHold == failure # "DebugAssertion"

\* ------------------------------------------------------------------- C37
\* how many of the first k pushed samples came from side
PushedFrom(pushed, side, k) == Cardinality({m \in 1..k : pushed[m].from = side})
\* the maximum of delta + g - 1 over the first n samples (0 when n = 0)
ResidualOf(samples, n) ==
    IF n = 0 THEN 0
    ELSE LET worst == CHOOSE m \in 1..n :
                 \A o \in 1..n : samples[o].delta + samples[o].g
                                     <= samples[m].delta + samples[m].g
         IN samples[worst].delta + samples[worst].g - 1

\* the k-th pushed sample is the one the sweep over self_samples and
\* other_samples has to push k-th
PushedInSweepOrder(self_samples, other_samples, pushed, k) ==
    LET i == PushedFrom(pushed, "self", k - 1)
        j == PushedFrom(pushed, "other", k - 1)
    IN
    IF i < Len(self_samples) /\ j < Len(other_samples)
    THEN IF self_samples[i + 1].value < other_samples[j + 1].value
         THEN /\ pushed[k].from = "self"
              /\ pushed[k].sample = [self_samples[i + 1] EXCEPT
                                        !.delta = @ + ResidualOf(other_samples, j)]
         ELSE /\ pushed[k].from = "other"
              /\ pushed[k].sample = [other_samples[j + 1] EXCEPT
                                        !.delta = @ + ResidualOf(self_samples, i)]
    ELSE IF i < Len(self_samples)
    THEN pushed[k].from = "self" /\ pushed[k].sample = self_samples[i + 1]
    ELSE /\ j < Len(other_samples)
         /\ pushed[k].from = "other" /\ pushed[k].sample = other_samples[j + 1]

\* C37: merge_sorted_samples sweeps both inputs once: while both have a next
\* sample it pops the one with the smaller value, the incoming side on a tie,
\* and pushes it with the other cursor's additional_delta added to its delta;
\* once one input is exhausted the rest of the other is pushed unchanged;
\* every sample of both inputs is pushed exactly once, in non-decreasing
\* order of value, and the Summary gets the compressor's output for them.
C37_MergeSweep ==
    last.op \in {"merge_begin", "merge_step", "merge_end"} =>
        LET self_samples == last.arg.self.samples
            other_samples == last.arg.other.samples
            pushed == last.arg.sweep.pushed
        IN
        /\ \A k \in 1..Len(pushed) :
               PushedInSweepOrder(self_samples, other_samples, pushed, k)
        /\ \A k \in 1..(Len(pushed) - 1) :
               pushed[k].sample.value <= pushed[k + 1].sample.value
        /\ last.op # "merge_end" => summary[last.slot].samples = self_samples
        /\ last.op = "merge_end" =>
               /\ PushedFrom(pushed, "self", Len(pushed)) = Len(self_samples)
               /\ PushedFrom(pushed, "other", Len(pushed)) = Len(other_samples)
               /\ summary[last.slot] = merge(last.arg.self, last.arg.other)

\* a sweep that popped the incoming side and then the receiver at equal
\* values, pushed a sample of the receiver with a delta added, and drained two
\* samples at its end
C37_Witness ==
    /\ last.op = "merge_end"
    /\ LET self_samples == last.arg.self.samples
           other_samples == last.arg.other.samples
           pushed == last.arg.sweep.pushed
       IN
       /\ \E k \in 1..(Len(pushed) - 1) :
              /\ pushed[k].from = "other" /\ pushed[k + 1].from = "self"
              /\ pushed[k].sample.value = pushed[k + 1].sample.value
       /\ \E k \in 1..Len(pushed) :
              /\ pushed[k].from = "self"
              /\ pushed[k].sample.delta
                     > self_samples[PushedFrom(pushed, "self", k)].delta
       /\ PushedFrom(pushed, "self", Len(pushed) - 2) = Len(self_samples)

\* ------------------------------------------------------------------- C38
\* the cursor over samples has popped its first n samples: its
\* additional_delta is the maximum of delta + g - 1 over them
CursorResidualIsMaximum(input, samples, n) ==
    /\ Len(input.samples) = Len(samples) - n
    /\ aditional_delta(input) = ResidualOf(samples, n)
    /\ \A m \in 1..n : aditional_delta(input) >= samples[m].delta + samples[m].g - 1
    /\ n = 0 => aditional_delta(input) = 0
\* one step of the cursor: unchanged, or a pop_front of popped
CursorStep(before, after) ==
    \/ after = before
    \/ /\ before.samples # <<>>
       /\ after.samples = Tail(before.samples)
       /\ LET popped == Head(before.samples) IN
          after.residual_delta
              = Max(before.residual_delta, popped.delta + popped.g - 1)

RECURSIVE NodeDepth(_)
NodeDepth(node) == IF is_leaf(node) THEN 1 ELSE 1 + NodeDepth(node.children[1])

\* the elements greater than the search value, as indexes of the sorted
\* elements
GreaterThan(elements, search_value) ==
    {i \in 1..Len(elements) : elements[i] > search_value}

\* the insertion site of search_value among the sorted elements
SiteOf(elements, search_value) ==
    LET greater == GreaterThan(elements, search_value)
        leftmost == CHOOSE i \in greater : \A k \in greater : i <= k
    IN
    IF elements = <<>>
    THEN [kind |-> "Empty", first |-> None, second |-> None]
    ELSE IF greater = 1..Len(elements)
    THEN [kind |-> "Minimum", first |-> Some(elements[1]),
          second |-> IF Len(elements) > 1 THEN Some(elements[2]) ELSE None]
    ELSE IF greater = {}
    THEN [kind |-> "Maximum", first |-> Some(elements[Len(elements)]),
          second |-> None]
    ELSE [kind |-> "Intermediate", first |-> Some(elements[leftmost]),
          second |-> None]

\* C39: try_insert classifies the insertion site correctly at any depth
\* (Empty iff no element; Minimum(min, successor or None) iff the search
\* value is smaller than every element; Maximum(max) iff no element is
\* greater; otherwise Intermediate(leftmost greater element), also when it
\* lives in an ancestor); a closure returning None leaves elements, order
\* and len unchanged; a returned value is inserted at the site and len grows
\* by one.
C39_InsertionSite ==
    last.op = "try_insert" =>
        LET elements == stream["a"]
            search_value == last.arg.search_value
            tree == summary["a"].tree
            site == Len(elements) - Cardinality(GreaterThan(elements, search_value))
        IN
        /\ failure = "none"
        /\ last.arg.point = SiteOf(elements, search_value)
        /\ last.arg.len = Len(elements)
        /\ IF last.arg.get_insert_value = None
           THEN /\ BTree_iter(tree) = elements
                /\ tree.len = last.arg.len
           ELSE /\ BTree_iter(tree)
                       = insert_at(elements, site + 1, last.arg.get_insert_value[1])
                /\ tree.len = last.arg.len + 1

\* an Intermediate site in a tree of three levels whose element to the right
\* is in the root, with the value inserted
C39_Witness ==
    /\ last.op = "try_insert"
    /\ last.arg.point.kind = "Intermediate"
    /\ last.arg.get_insert_value # None
    /\ NodeDepth(summary["a"].tree.root) = 3
    /\ \E i \in 1..Len(summary["a"].tree.root.elements) :
          summary["a"].tree.root.elements[i] = last.arg.point.first[1]
    /\ summary["a"].tree.len = last.arg.len + 1

\* ------------------------------------------------------------------- C40
\* C40: merge of the baseline gk::Summary completes without failing when
\* the receiver, the other operand, or both hold no samples (len = 0); the
\* result has len equal to the sum of both lens and the samples of the
\* non-empty operand.
C40_GkMergeOfEmpty ==
    (/\ last.op = "merge"
     /\ last.arg.self.len = 0 \/ last.arg.other.len = 0)
    => /\ failure = "none"
       /\ summary[last.slot].len = last.arg.self.len + last.arg.other.len
       /\ [k \in 1..Len(summary[last.slot].samples) |->
              summary[last.slot].samples[k].value]
          = [k \in 1..Len(last.arg.self.samples \o last.arg.other.samples) |->
              (last.arg.self.samples \o last.arg.other.samples)[k].value]

====
